---- MODULE Spec2Model ----
(***************************************************************************)
(* Model of the CSFD ratings scraper (src/scrape_csfd.mjs).                *)
(*                                                                         *)
(*   SpecRetry : withRetry as a state machine over arbitrary arguments.    *)
(*   Spec      : main - runs of the pagination walker, with kill/resume.   *)
(*   SpecPool  : enrichWithDetails - the worker pool over an item list.    *)
(*                                                                         *)
(* Strings are sequences of tokens, a URL is a sequence of path segments,  *)
(* each a sequence of tokens, so that template strings such as             *)
(* `${it.url}::${it.title}` are computed by concatenation.                 *)
(***************************************************************************)
EXTENDS Integers, Sequences, FiniteSets, TLC

VARIABLES
    rt,         \* withRetry: one call in progress (SpecRetry)
    runs,       \* main: number of process runs started so far
    cfg,        \* main: config of the current run (CLI flags)
    stateFile,  \* disk: data/scraper_state.json
    dataset,    \* disk: the CSV/JSON dataset as written by the current run
    pc,         \* main: position of the current run
    p,          \* main: loop variable of the pagination loop
    li,         \* main: loop variable i of withRetry inside parseListPage
    all,        \* main: collected items
    seen,       \* main: seen-set of dedup keys
    obs,        \* main: observations of the current run (history)
    poolCfg,    \* flags read by enrichWithDetails and the cache functions
    cache,      \* the in-memory cache Map
    cacheFile,  \* disk: data/scraper_cache.json
    idx,        \* enrichWithDetails: shared cursor
    done,       \* enrichWithDetails: processed counter
    wk,         \* enrichWithDetails: the workers (position, item, attempt)
    ppc,        \* enrichWithDetails: position of the call itself
    pobs,       \* enrichWithDetails: observations per item (history)
    listing,    \* the site: the rows of each page of the ratings listing
    argv,       \* the flags a job is started and restarted with (SpecResume)
    att         \* one enrichment attempt in progress (SpecAttempt)

mainVars == <<runs, cfg, stateFile, dataset, pc, p, li, all, seen, obs>>
poolVars == <<poolCfg, cache, cacheFile, idx, done, wk, ppc, pobs>>
vars == <<rt, runs, cfg, stateFile, dataset, pc, p, li, all, seen, obs,
          poolCfg, cache, cacheFile, idx, done, wk, ppc, pobs, listing, argv, att>>

(***************************************************************************)
(* Bounds                                                                  *)
(***************************************************************************)
MaxAttemptsBound == 4      \* largest maxRetries argument tried in SpecRetry
MaxRuns == 2               \* process runs per behaviour
MaxRowsPerPage == 2        \* rows a listing page can yield
MaxPoolLoad == 5           \* enrichWithDetails: workers + items at most this
PageCap == 6               \* largest page number a run may be configured for
MaxFlushItems == 55        \* items of the long pool run (SpecFlush)
MaxFragments == 3          \* identifier-bearing fragments of a page (SpecExtract)
MaxCandidates == 2         \* search results of free shape (SpecScore)
MaxDescLen == 253          \* longest plot text tried (SpecDescribe)
MaxTitleLen == 3
MaxSiteNew == 52        \* incremental run: unrated items the listing shows
MaxShift == 1           \* incremental run: ratings added while it runs
MaxSaveItems == 100     \* items of a pool run with every await of saveCache           \* characters of a title (SpecClean, SpecSearch)

(***************************************************************************)
(* withRetry                                                               *)
(***************************************************************************)
RECURSIVE Pow2(_)
Pow2(n) == IF n <= 0 THEN 1 ELSE 2 * Pow2(n - 1)

\* const delay = baseDelay * Math.pow(2, i)
RetryDelayLinear(baseDelay, i) == baseDelay * (i + 1)
RetryDelay(baseDelay, i) == baseDelay * Pow2(i)

\* for (let i = 0; i < maxRetries; i++)
RetryLoopGuard(i, maxRetries) == i < maxRetries

\* One iteration of the loop body, given what fn() did:
\* outcome = [ok |-> TRUE, v |-> value] or [ok |-> FALSE, v |-> error].
RetryStepOffByOne(i, maxRetries, baseDelay, outcome) ==
    IF outcome.ok
    THEN [kind |-> "return", v |-> outcome.v, delay |-> 0]
    ELSE IF i = maxRetries
         THEN [kind |-> "throw", v |-> outcome.v, delay |-> 0]
         ELSE [kind |-> "sleep", v |-> outcome.v, delay |-> RetryDelay(baseDelay, i)]
RetryStep(i, maxRetries, baseDelay, outcome) ==
    IF outcome.ok
    THEN [kind |-> "return", v |-> outcome.v, delay |-> 0]
    ELSE IF i = maxRetries - 1
         THEN [kind |-> "throw", v |-> outcome.v, delay |-> 0]
         ELSE [kind |-> "sleep", v |-> outcome.v, delay |-> RetryDelay(baseDelay, i)]

\* Errors an operation can throw: plain Error objects of the runtime.
Errors == { [name |-> "TimeoutError", id |-> 1], [name |-> "Error", id |-> 2] }
FnOutcomes == { [ok |-> TRUE, v |-> "r1"], [ok |-> TRUE, v |-> "r2"] }
              \cup { [ok |-> FALSE, v |-> e] : e \in Errors }
BaseDelays == {800, 1000, 1500}
Undefined == "undefined"

RtIdle == [maxRetries |-> 0, baseDelay |-> 0, i |-> 0, hist |-> <<>>,
           delays |-> <<>>, status |-> "none", v |-> Undefined]

\* A call withRetry(fn, maxRetries, baseDelay) about to enter its loop.
RetryCalls ==
    { [maxRetries |-> m, baseDelay |-> b, i |-> 0, hist |-> <<>>,
       delays |-> <<>>, status |-> "running", v |-> Undefined] :
      m \in 0..MaxAttemptsBound, b \in BaseDelays }

\* try { return await fn(); } catch (e) { ... }
RetryInvoke(outcome) ==
    /\ rt.status = "running"
    /\ RetryLoopGuard(rt.i, rt.maxRetries)
    /\ LET s == RetryStep(rt.i, rt.maxRetries, rt.baseDelay, outcome)
           h == Append(rt.hist, outcome)
       IN  rt' = CASE s.kind = "return" ->
                        [rt EXCEPT !.hist = h, !.status = "returned", !.v = s.v]
                   [] s.kind = "throw" ->
                        [rt EXCEPT !.hist = h, !.status = "threw", !.v = s.v]
                   [] OTHER ->
                        [rt EXCEPT !.hist = h, !.i = rt.i + 1,
                                   !.delays = Append(rt.delays, s.delay)]
    /\ UNCHANGED <<mainVars, poolVars, listing, argv, att>>

\* The loop ends without return or throw: the function returns undefined.
RetryFallThrough ==
    /\ rt.status = "running"
    /\ ~RetryLoopGuard(rt.i, rt.maxRetries)
    /\ rt' = [rt EXCEPT !.status = "returned", !.v = Undefined]
    /\ UNCHANGED <<mainVars, poolVars, listing, argv, att>>

(***************************************************************************)
(* Strings, URLs, rows of the listing                                      *)
(***************************************************************************)
RECURSIVE JoinPath(_)
\* The text of a URL: its path segments joined by "/".
JoinPath(segs) ==
    IF segs = <<>> THEN <<>>
    ELSE <<"/">> \o Head(segs) \o JoinPath(Tail(segs))

\* const k = `${it.url}::${it.title}`
ItemKey(it) == JoinPath(it.url) \o <<"::">> \o it.title

UrlFilm1  == << <<"film">>, <<"1">> >>
UrlFilm1x == << <<"film">>, <<"1", "::", "A">> >>
UrlEp12   == << <<"film">>, <<"1">>, <<"2">> >>

\* Rows parseListPage can return (title, type, url; the enrichment
\* placeholders are added by main).  Row2 and Row3 are different
\* (url, title) pairs with the same key text; Row1 and Row2 share the URL.
Row1 == [url |-> UrlFilm1,  title |-> <<"A">>,            type |-> "film",
         year |-> "2001", rating |-> 5, ratingDate |-> "01.02.2021"]
Row2 == [url |-> UrlFilm1,  title |-> <<"A", "::", "B">>, type |-> "film",
         year |-> "2002", rating |-> 4, ratingDate |-> "02.02.2021"]
Row3 == [url |-> UrlFilm1x, title |-> <<"B">>,            type |-> "film",
         year |-> "", rating |-> 3, ratingDate |-> "03.02.2021"]
Row4 == [url |-> UrlEp12,   title |-> <<"A">>,            type |-> "episode",
         year |-> "2004", rating |-> 2, ratingDate |-> ""]
Rows == {Row1, Row2, Row3, Row4}

RECURSIVE SeqsUpTo(_, _)
SeqsUpTo(S, n) ==
    IF n = 0 THEN { <<>> }
    ELSE LET shorter == SeqsUpTo(S, n - 1)
         IN  shorter \cup { Append(q, x) : q \in shorter, x \in S }

\* What one listing page can yield, in row order.
PageResults == SeqsUpTo(Rows, MaxRowsPerPage)

\* `https://www.imdb.com/title/${id}/`
ImdbUrl(id) == IF id = "" THEN <<>> ELSE <<"https://www.imdb.com/title/", id, "/">>

\* imdb_url and original_title are token sequences, the rest plain values.
EmptyFields == [imdb_id |-> "", imdb_url |-> <<>>, original_title |-> <<>>,
                genre |-> "", director |-> "", cast |-> "", description |-> ""]

\* main, lines 1224-1232: the row with its enrichment placeholders.
NewItem(row) == [url |-> row.url, title |-> row.title, type |-> row.type,
                 year |-> row.year, rating |-> row.rating,
                 ratingDate |-> row.ratingDate,
                 f |-> EmptyFields]

(***************************************************************************)
(* config                                                                  *)
(***************************************************************************)
Null == 0                  \* an absent CLI flag / null
DefaultMaxPages == 2000
TestMaxPages == 1
TestMaxItems == 5
RetryDelayProd == 1500
RetryDelayTest == 800
ListAttempts == 2
StateSaveInterval == 5

\* parseCliFlag yields null or a number >= 1.
\* --resume and --skipDetails are each read once (loadState, step 3 of main)
\* and are drawn where they are read.
Configs ==
    [test : BOOLEAN, maxPagesFlag : {Null, PageCap}, maxItemsFlag : {Null, 1, 2}]

\* MAX_PAGES: maxPagesFlag || (testModeFlag ? 1 : 2000)
MAX_PAGES(c) ==
    IF c.maxPagesFlag # Null THEN c.maxPagesFlag
    ELSE IF c.test THEN TestMaxPages ELSE DefaultMaxPages
\* MAX_ITEMS: maxItemsFlag || (testModeFlag ? 5 : null)
MAX_ITEMS(c) ==
    IF c.maxItemsFlag # Null THEN c.maxItemsFlag
    ELSE IF c.test THEN TestMaxItems ELSE Null
\* delays.retry: testModeFlag ? 800 : 1500
DelaysRetry(c) == IF c.test THEN RetryDelayTest ELSE RetryDelayProd

NoConfig == [test |-> FALSE, maxPagesFlag |-> Null, maxItemsFlag |-> Null]

(***************************************************************************)
(* main: the pagination walker                                             *)
(***************************************************************************)
\* The run-state file: absent, readable (as written by saveState), or
\* present but not parseable (a write cut short when the process died).
NoState == [present |-> FALSE, readable |-> FALSE, lastPage |-> 0, items |-> <<>>]
CorruptState == [present |-> TRUE, readable |-> FALSE, lastPage |-> 0, items |-> <<>>]

\* The dataset files (CSV and JSON) of the current run: not written yet, or
\* the rows written.  No code of the scraper reads them back.
NoDataset == [written |-> FALSE, rows |-> <<>>]
\* toCsv(all) / JSON.stringify(all): one row per collected item, in order.
DatasetOfFirst(items) ==
    [written |-> TRUE, rows |-> SubSeq(items, 1, IF Len(items) > 0 THEN 1 ELSE 0)]
DatasetOf(items) == [written |-> TRUE, rows |-> items]

NoObs == [lastReq |-> 0,          \* last page number requested in this run
          attempts |-> 0,         \* parse attempts made for page lastReq
          delays |-> <<>>,        \* delays slept between those attempts
          failed |-> 0,           \* page skipped just before lastReq because
                                  \* its parse failed on every attempt, else 0
          last |-> "",            \* what parseListPage did for page lastReq:
                                  \* "threw", "empty" or "rows"
          added |-> 0,            \* `added` after the rows of page lastReq
          dup |-> FALSE,          \* a row of page lastReq was already seen
          stop |-> "",            \* why the walk ended
          stopPage |-> 0,         \* the page it ended on
          restored |-> 0,         \* items taken from the run-state file
          resume |-> FALSE]       \* --resume as read by loadState (kept until
                                  \* the first page request of the run)

KeysOf(items) == { ItemKey(items[n]) : n \in 1..Len(items) }

\* loadState: null (NoState) unless --resume is given and the file can be
\* read and parsed; every error of the read is caught.
LoadStateAlways(resume, file) ==
    IF file.present /\ file.readable THEN file ELSE NoState
LoadState(resume, file) ==
    IF ~resume THEN NoState
    ELSE IF file.present /\ file.readable THEN file ELSE NoState

\* startPage = previousState.lastPage + 1, or 1 without a previous state.
StartPageSame(previousState) ==
    IF previousState.present THEN previousState.lastPage ELSE 1
StartPage(previousState) ==
    IF previousState.present THEN previousState.lastPage + 1 ELSE 1

\* The for-loop over the rows of one page (lines 1218-1241): returns the new
\* `all`, `seen`, `added`, and whether a row was rejected as already seen.
RECURSIVE AddRowsNoDedup(_, _, _, _, _, _)
AddRowsNoDedup(rows, a, s, added, dup, maxItems) ==
    IF rows = <<>> THEN [all |-> a, seen |-> s, added |-> added, dup |-> dup]
    ELSE LET it == NewItem(Head(rows))
             k  == ItemKey(it)
             a2 == Append(a, it)
         IN  IF maxItems # Null /\ Len(a2) >= maxItems
             THEN [all |-> a2, seen |-> s \cup {k}, added |-> added + 1, dup |-> dup]
             ELSE AddRowsNoDedup(Tail(rows), a2, s \cup {k}, added + 1, dup, maxItems)
RECURSIVE AddRows(_, _, _, _, _, _)
AddRows(rows, a, s, added, dup, maxItems) ==
    IF rows = <<>> THEN [all |-> a, seen |-> s, added |-> added, dup |-> dup]
    ELSE LET it == NewItem(Head(rows))
             k  == ItemKey(it)
         IN  IF k \notin s
             THEN LET a2 == Append(a, it)
                  IN  IF maxItems # Null /\ Len(a2) >= maxItems
                      THEN [all |-> a2, seen |-> s \cup {k},
                            added |-> added + 1, dup |-> dup]
                      ELSE AddRows(Tail(rows), a2, s \cup {k}, added + 1, dup, maxItems)
             ELSE AddRows(Tail(rows), a, s, added, TRUE, maxItems)

\* What the operation wrapped by parseListPage can do on one attempt:
\* page.goto throws, or it returns the rows (none when the selector wait
\* times out or the table has no rows).
ListOutcomes == { [ok |-> FALSE, v |-> e] : e \in Errors }
                \cup { [ok |-> TRUE, v |-> rows] : rows \in PageResults }

ListStep(outcome) == RetryStep(li, ListAttempts, DelaysRetry(cfg), outcome)

InLoopBody == pc = "loop" /\ p <= MAX_PAGES(cfg) /\ p <= PageCap

\* obs after making one more parse attempt for page p
ObsAttempt == [obs EXCEPT !.lastReq = p,
                          !.attempts = li + 1,
                          !.delays = IF li = 0 THEN <<>> ELSE obs.delays,
                          !.last = "",
                          !.resume = FALSE]

\* catch (e) { console.error(...); continue; }  (lines 1208-1211)
OnListFailureBreak == "break"
OnListFailure == "continue"

\* if (added === 0 || (config.MAX_ITEMS && all.length >= config.MAX_ITEMS)) break
WalkBreaksAtMaxOnly(added, atMax) == atMax
WalkBreaks(added, atMax) == added = 0 \/ atMax

\* Lines 1174-1199: a process starts; loadState; seen-set from the items.
StartRun(c, resume) ==
    /\ pc \in {"idle", "finished"}
    /\ runs < MaxRuns
    /\ runs' = runs + 1
    /\ cfg' = c
    /\ LET previousState == LoadState(resume, stateFile)
       IN  /\ all' = IF previousState.present THEN previousState.items ELSE <<>>
           /\ p' = StartPage(previousState)
    /\ seen' = KeysOf(all')
    /\ li' = 0
    /\ obs' = [NoObs EXCEPT !.restored = Len(all'), !.resume = resume]
    /\ dataset' = NoDataset
    /\ pc' = "loop"
    /\ UNCHANGED <<rt, listing, argv, att, poolVars, stateFile>>

\* parseListPage: an attempt throws and withRetry sleeps before the next.
ListAttemptRetry(outcome) ==
    /\ InLoopBody
    /\ ListStep(outcome).kind = "sleep"
    /\ li' = li + 1
    /\ obs' = [ObsAttempt EXCEPT !.delays = Append(@, ListStep(outcome).delay)]
    /\ UNCHANGED <<rt, listing, argv, att, poolVars, dataset, runs, cfg, stateFile, pc, p, all, seen>>

\* parseListPage throws after its last attempt; main logs and `continue`s.
ListAttemptExhausted(outcome) ==
    /\ InLoopBody
    /\ ListStep(outcome).kind = "throw"
    /\ IF OnListFailure = "continue"
       THEN /\ p' = p + 1
            /\ pc' = pc
            /\ obs' = [ObsAttempt EXCEPT !.failed = p, !.last = "threw"]
       ELSE /\ p' = 0
            /\ pc' = "enrich"
            /\ obs' = [ObsAttempt EXCEPT !.failed = p, !.last = "threw",
                                         !.stop = "failed", !.stopPage = p]
    /\ li' = 0
    /\ UNCHANGED <<rt, listing, argv, att, poolVars, dataset, runs, cfg, stateFile, all, seen>>

\* parseListPage returns no rows: `if (!items.length) break`.
ListPageEmptyContinues(outcome) ==
    /\ InLoopBody
    /\ ListStep(outcome).kind = "return"
    /\ ListStep(outcome).v = <<>>
    /\ p' = p + 1 /\ li' = 0
    /\ obs' = [ObsAttempt EXCEPT !.last = "empty"]
    /\ UNCHANGED <<rt, listing, argv, att, poolVars, dataset, runs, cfg, stateFile, pc, all, seen>>
ListPageEmpty(outcome) ==
    /\ InLoopBody
    /\ ListStep(outcome).kind = "return"
    /\ ListStep(outcome).v = <<>>
    /\ pc' = "enrich"
    /\ p' = 0 /\ li' = 0
    /\ obs' = [ObsAttempt EXCEPT !.last = "empty", !.stop = "norows", !.stopPage = p]
    /\ UNCHANGED <<rt, listing, argv, att, poolVars, dataset, runs, cfg, stateFile, all, seen>>

\* parseListPage returns rows: dedup loop, then break or go on.
ListPageRows(outcome) ==
    /\ InLoopBody
    /\ ListStep(outcome).kind = "return"
    /\ ListStep(outcome).v # <<>>
    /\ LET r == AddRows(ListStep(outcome).v, all, seen, 0, FALSE, MAX_ITEMS(cfg))
           atMax == MAX_ITEMS(cfg) # Null /\ Len(r.all) >= MAX_ITEMS(cfg)
           o == [ObsAttempt EXCEPT !.failed = 0, !.last = "rows",
                                   !.added = r.added, !.dup = r.dup]
       IN  /\ all' = r.all
           /\ seen' = r.seen
           /\ IF WalkBreaks(r.added, atMax)
              THEN /\ pc' = "enrich"
                   /\ p' = 0 /\ li' = 0
                   /\ obs' = [o EXCEPT !.stop = IF r.added = 0 THEN "nonew" ELSE "max",
                                       !.stopPage = p]
              ELSE /\ pc' = IF p % StateSaveInterval = 0 THEN "saveState" ELSE "sleep"
                   /\ obs' = o
                   /\ UNCHANGED <<p, li>>
    /\ UNCHANGED <<rt, listing, argv, att, poolVars, dataset, runs, cfg, stateFile>>

\* saveState(p, all): the write succeeds, or fails and is only warned about.
SaveState(ok) ==
    /\ pc = "saveState"
    /\ stateFile' = IF ok THEN [present |-> TRUE, readable |-> TRUE,
                                lastPage |-> p, items |-> all]
                    ELSE stateFile
    /\ pc' = "sleep"
    /\ UNCHANGED <<rt, listing, argv, att, poolVars, dataset, runs, cfg, p, li, all, seen, obs>>

\* await adaptiveSleep(config.delays.pagination); p++
PaginationSleep ==
    /\ pc = "sleep"
    /\ p' = p + 1
    /\ li' = 0
    /\ pc' = "loop"
    /\ obs' = [obs EXCEPT !.attempts = 0, !.delays = <<>>, !.last = "",
                          !.added = 0, !.dup = FALSE]
    /\ UNCHANGED <<rt, listing, argv, att, poolVars, dataset, runs, cfg, stateFile, all, seen>>

\* The loop condition p <= config.MAX_PAGES fails.
LoopExit ==
    /\ pc = "loop"
    /\ p > MAX_PAGES(cfg)
    /\ pc' = "enrich"
    /\ p' = 0 /\ li' = 0
    /\ obs' = [obs EXCEPT !.stop = "exhausted"]
    /\ UNCHANGED <<rt, listing, argv, att, poolVars, dataset, runs, cfg, stateFile, all, seen>>

\* Enrichment results one item can end up with.
FoundFields == [imdb_id |-> "tt1", imdb_url |-> ImdbUrl("tt1"), original_title |-> <<"T">>,
                genre |-> "g", director |-> "d", cast |-> "c", description |-> "x"]
DetailResults == {EmptyFields, FoundFields}

\* Step 3 of main: enrichWithDetails mutates the items' fields in place and
\* returns; with --skipDetails or no items it is not called.
\* fs[n] is what enrichWithDetails leaves in the fields of item n.
EnrichPhase(skipDetails, fs) ==
    /\ pc = "enrich"
    /\ IF ~skipDetails /\ Len(all) > 0
       THEN all' = [n \in 1..Len(all) |-> [all[n] EXCEPT !.f = fs[n]]]
       ELSE all' = all
    /\ pc' = "write"
    /\ obs' = NoObs
    /\ UNCHANGED <<rt, listing, argv, att, poolVars, dataset, runs, cfg, stateFile, p, li, seen>>

\* if (!config.flags.test) { try { await fs.unlink(files.state) } catch {} }
UnlinksStateNever(c) == FALSE
UnlinksState(c) == ~c.test

\* Steps 4-5 of main: write the dataset files, unlink the run-state file
\* unless in test mode (an error of the unlink is ignored); main returns.
WriteAndCleanup(unlinkOk) ==
    /\ pc = "write"
    /\ dataset' = DatasetOf(all)
    /\ stateFile' = IF UnlinksState(cfg) /\ unlinkOk THEN NoState ELSE stateFile
    /\ pc' = "finished"
    /\ cfg' = NoConfig /\ p' = 0 /\ li' = 0 /\ all' = <<>> /\ seen' = {}
    /\ obs' = [NoObs EXCEPT !.stop =
                  IF UnlinksState(cfg) /\ stateFile.present
                  THEN (IF unlinkOk THEN "removed" ELSE "unlinkFailed")
                  ELSE "done"]
    /\ UNCHANGED <<rt, listing, argv, att, poolVars, runs>>

\* The process is killed at an await; only the disk survives.
Kill ==
    /\ pc \notin {"idle", "none", "finished"}
    /\ pc' = "idle"
    /\ cfg' = NoConfig /\ p' = 0 /\ li' = 0 /\ all' = <<>> /\ seen' = {}
    /\ obs' = NoObs
    /\ UNCHANGED <<rt, listing, argv, att, poolVars, dataset, runs, stateFile>>

\* The process is killed while fs.writeFile of saveState is writing: the
\* file is left cut short.
KillInSaveState ==
    /\ pc = "saveState"
    /\ stateFile' = CorruptState
    /\ pc' = "idle"
    /\ cfg' = NoConfig /\ p' = 0 /\ li' = 0 /\ all' = <<>> /\ seen' = {}
    /\ obs' = NoObs
    /\ UNCHANGED <<rt, listing, argv, att, poolVars, dataset, runs>>

MainIdle ==
    /\ runs = 0 /\ cfg = NoConfig /\ stateFile = NoState /\ p = 0 /\ li = 0
    /\ all = <<>> /\ seen = {} /\ obs = NoObs /\ dataset = NoDataset
    /\ listing = <<>> /\ argv = NoConfig

\* No enrichment attempt is being followed.
AttIdle == [stage |-> "none"]

(***************************************************************************)
(* enrichWithDetails: one enrichment attempt (the operation given to       *)
(* withRetry, lines 1005-1107)                                             *)
(***************************************************************************)
\* parentTitleUrl: keep the path up to the segment after "film" when the
\* path has more segments than that, else "".
FilmIndex(parts) ==
    IF \E n \in 1..Len(parts) : parts[n] = <<"film">>
    THEN CHOOSE n \in 1..Len(parts) :
            /\ parts[n] = <<"film">>
            /\ \A m \in 1..(n - 1) : parts[m] # <<"film">>
    ELSE 0
ParentTitleUrl(url) ==
    LET ix == FilmIndex(url)
    IN  IF ix >= 1 /\ Len(url) > ix + 1 THEN SubSeq(url, 1, ix + 1) ELSE <<>>

\* .replace(/\s*\(více\)\s*$/i, '').trim() on the original title
More == "(vice)"
StripMore(t) ==
    IF t # <<>> /\ t[Len(t)] = More THEN SubSeq(t, 1, Len(t) - 1) ELSE t

SeriesLike(it) == it.type \in {"episode", "season", "series"}

\* What the extractors can find on one rendered page: identifier, original
\* title, and the secondary fields (genre, director, cast, description).
NoExtract == [imdb_id |-> "", original_title |-> <<>>, sec |-> FALSE]
Extracts == { NoExtract,
              [imdb_id |-> "", original_title |-> <<"T", More>>, sec |-> TRUE],
              [imdb_id |-> "tt1", original_title |-> <<"T">>, sec |-> TRUE] }
\* What searchImdbByTitle returns as imdb_id ("" when nothing is found or
\* the search failed).
SearchIds == {"", "tt1"}
FoundExtract == [imdb_id |-> "tt1", original_title |-> <<"T">>, sec |-> TRUE]

\* Inputs of one attempt: what the network and the pages do.
NoInputs == [gotoOk |-> TRUE, direct |-> NoExtract, again |-> NoExtract,
             search1 |-> "", parentOk |-> TRUE, parent |-> NoExtract,
             search2 |-> ""]

\* Quick retry if both are empty (lines 1030-1037)
NeedSettle(d) == d.direct.imdb_id = "" /\ d.direct.original_title = <<>>
AfterSettle(d) ==
    IF NeedSettle(d)
    THEN [imdb |-> d.again.imdb_id, orig |-> d.again.original_title]
    ELSE [imdb |-> d.direct.imdb_id, orig |-> d.direct.original_title]

\* Search by original title (lines 1040-1048)
NeedSearch1NoIdTest(d) == AfterSettle(d).orig # <<>>
NeedSearch1(d) == AfterSettle(d).imdb = "" /\ AfterSettle(d).orig # <<>>
AfterSearch1(d) ==
    IF NeedSearch1(d) /\ d.search1 # ""
    THEN [AfterSettle(d) EXCEPT !.imdb = d.search1]
    ELSE AfterSettle(d)

\* Parent page fallback (lines 1051-1072)
NeedParent(it, d) ==
    /\ AfterSearch1(d).imdb = "" \/ AfterSearch1(d).orig = <<>>
    /\ SeriesLike(it)
    /\ ParentTitleUrl(it.url) # <<>>
AfterParentOverwrite(it, d) ==
    LET s == AfterSearch1(d)
    IN  IF NeedParent(it, d)
        THEN [imdb |-> IF d.parent.imdb_id # "" THEN d.parent.imdb_id ELSE s.imdb,
              orig |-> IF d.parent.original_title # <<>>
                       THEN d.parent.original_title ELSE s.orig]
        ELSE s
AfterParent(it, d) ==
    LET s == AfterSearch1(d)
    IN  IF NeedParent(it, d)
        THEN [imdb |-> IF s.imdb = "" THEN d.parent.imdb_id ELSE s.imdb,
              orig |-> IF s.orig = <<>> THEN d.parent.original_title ELSE s.orig]
        ELSE s

\* Search again for episodes/seasons/series (lines 1075-1083)
NeedSearch2(it, d) ==
    AfterParent(it, d).imdb = "" /\ AfterParent(it, d).orig # <<>> /\ SeriesLike(it)
AfterSearch2(it, d) ==
    IF NeedSearch2(it, d) /\ d.search2 # ""
    THEN [AfterParent(it, d) EXCEPT !.imdb = d.search2]
    ELSE AfterParent(it, d)

\* The attempt throws when a navigation throws (the extractors and the
\* search catch their own errors).
AttemptThrows(it, d) == ~d.gotoOk \/ (NeedParent(it, d) /\ ~d.parentOk)

\* Network work of the attempt: "nav" detail/parent navigation, "search".
AttemptNet(it, d) ==
    {"nav"} \cup (IF d.gotoOk /\ (NeedSearch1(d)
                                   \/ ((~NeedParent(it, d) \/ d.parentOk)
                                       /\ NeedSearch2(it, d)))
                  THEN {"search"} ELSE {})

\* Lines 1085-1094: the fields written to the item by a completed attempt.
AttemptFields(it, d) ==
    LET s == AfterSearch2(it, d)
    IN  [imdb_id |-> s.imdb,
         imdb_url |-> ImdbUrl(s.imdb),
         original_title |-> StripMore(s.orig),
         genre |-> IF d.direct.sec THEN "g" ELSE "",
         director |-> IF d.direct.sec THEN "d" ELSE "",
         cast |-> IF d.direct.sec THEN "c" ELSE "",
         description |-> IF d.direct.sec THEN "x" ELSE ""]

(***************************************************************************)
(* enrichWithDetails: the worker pool                                      *)
(***************************************************************************)
EnrichAttempts == 2
EnrichBaseDelay == 1000
BatchSaveThreshold == 50
ConcurrencyTest == 2
ConcurrencyProd == 3

\* concurrency.details: testModeFlag ? 2 : 3
Concurrency(c) == IF c.test THEN ConcurrencyTest ELSE ConcurrencyProd

\* const cacheKey = `${it.url}::details`
CacheKey(it) == JoinPath(it.url) \o <<"::details">>

EmptyMap == [k \in {} |-> EmptyFields]

\* The properties of a cache entry, in the order cache.set writes them.
FieldNames == <<"imdb_id", "imdb_url", "original_title",
                "genre", "director", "cast", "description">>

\* JSON.stringify(Object.fromEntries(cache)): per key the entry's
\* properties as name/value pairs.
EntryJsonIdOnly(e) == << <<"imdb_id", e.imdb_id>> >>
EntryJson(e) == [n \in 1..Len(FieldNames) |-> <<FieldNames[n], e[FieldNames[n]]>>]
JsonStringify(c) == [k \in DOMAIN c |-> EntryJson(c[k])]

\* new Map(Object.entries(JSON.parse(data))): per key the object with the
\* properties found in the text.
JsonObject(pairs) ==
    [nm \in { pairs[n][1] : n \in DOMAIN pairs } |->
        LET last == CHOOSE n \in DOMAIN pairs :
                        /\ pairs[n][1] = nm
                        /\ \A m \in DOMAIN pairs : pairs[m][1] = nm => m <= n
        IN  pairs[last][2]]
JsonParse(json) == [k \in DOMAIN json |-> JsonObject(json[k])]

\* The cache file: absent, or present with a text that parses to an object
\* (valid) or does not.
NoCacheFile == [present |-> FALSE, valid |-> FALSE, json |-> JsonStringify(EmptyMap)]

\* cache.has(cacheKey)
CacheHasNever(c, key) == FALSE
CacheHas(c, key) == key \in DOMAIN c

\* fs.readFile throws for a missing or unreadable file, JSON.parse (or
\* Object.entries) for a text that is not a JSON object.
ReadOrParseThrows(file) == ~file.present \/ ~file.valid

\* Whether an error leaves loadCache: the catch block (lines 200-202) takes
\* every error of the read and the parse.
LoadCacheEscapesNoCatch(flag, file) == flag /\ ReadOrParseThrows(file)
LoadCacheEscapes(flag, file) == FALSE

\* loadCache: the parsed file, or the Map left empty when caching is off or
\* reading or parsing the file throws (caught inside loadCache).
LoadCache(flag, file) ==
    IF ~flag THEN EmptyMap
    ELSE IF ReadOrParseThrows(file) THEN EmptyMap ELSE JsonParse(file.json)

\* saveCache: writes the whole Map unless caching is off or the write fails.
SaveCache(flag, c, file, ok) ==
    IF flag /\ ok THEN [present |-> TRUE, valid |-> TRUE, json |-> JsonStringify(c)]
    ELSE file

\* cache.set(cacheKey, {...}) is the last statement of the operation: it
\* runs exactly when the attempt did not throw, whatever was found.
CacheAfterSkipEmpty(c, it, fields, throws) ==
    IF throws \/ fields.imdb_id = "" THEN c ELSE (CacheKey(it) :> fields) @@ c
CacheAfter(c, it, fields, throws) ==
    IF throws THEN c ELSE (CacheKey(it) :> fields) @@ c

\* const i = idx++  (indices are 1-based here: idx starts at 1 and
\* i > Len(items) is the code's i >= items.length)
ClaimNextSkip(i) == i + 2
ClaimNext(i) == i + 1

\* The statements a try block of the worker covers (lines 1002-1110).
InTryOnlyRetry(stage) == stage \in {"attempt"}
InTry(stage) == stage \in {"newPage", "attempt", "close"}

\* One synchronous run of the worker loop from the claim on: every claimed
\* index whose key is cached is served from the cache and the loop goes on
\* (`continue`); it ends at the first index that is not cached or is past
\* the end.  Returns that index, the indices served from the cache, and idx.
RECURSIVE ClaimLoop(_, _, _, _)
ClaimLoop(k, hits, items, c) ==
    IF k <= Len(items) /\ CacheHas(c, CacheKey(items[k]))
    THEN ClaimLoop(ClaimNext(k), hits \cup {k}, items, c)
    ELSE [i |-> k, hits |-> hits, idx |-> ClaimNext(k)]

\* cached.x || "": the property, or the empty string when it is missing.
OrEmpty(cached, nm) ==
    IF nm \in DOMAIN cached THEN cached[nm] ELSE EmptyFields[nm]

FromCacheRetitled(it, c) ==
    LET cached == c[CacheKey(it)]
    IN  [it EXCEPT !.title = OrEmpty(cached, "original_title"),
                   !.f = [imdb_id |-> OrEmpty(cached, "imdb_id"),
                          imdb_url |-> OrEmpty(cached, "imdb_url"),
                          original_title |-> OrEmpty(cached, "original_title"),
                          genre |-> OrEmpty(cached, "genre"),
                          director |-> OrEmpty(cached, "director"),
                          cast |-> OrEmpty(cached, "cast"),
                          description |-> OrEmpty(cached, "description")]]
\* Lines 986-994: the cached entry copied onto the item.
FromCache(it, c) ==
    LET cached == c[CacheKey(it)]
    IN  [it EXCEPT !.f = [imdb_id |-> OrEmpty(cached, "imdb_id"),
                          imdb_url |-> OrEmpty(cached, "imdb_url"),
                          original_title |-> OrEmpty(cached, "original_title"),
                          genre |-> OrEmpty(cached, "genre"),
                          director |-> OrEmpty(cached, "director"),
                          cast |-> OrEmpty(cached, "cast"),
                          description |-> OrEmpty(cached, "description")]]

Working(w) == wk[w].pc \in {"newPage", "attempt", "close"}

\* Network work done for item n; it is recorded for the items whose key was
\* in the cache when they were claimed.
NetSeen(po, n, what) ==
    IF po[n].hit THEN [po EXCEPT ![n].net = @ \cup what] ELSE po

\* done++ after an item, with the periodic saveCache; the worker then
\* sleeps (adaptiveSleep touches no state) and is back at the claim.
Periodic == (done + 1) % BatchSaveThreshold = 0
AfterItem(w, saveOk) ==
    /\ done' = done + 1
    /\ cacheFile' = IF Periodic
                    THEN SaveCache(poolCfg.cache, cache', cacheFile, saveOk)
                    ELSE cacheFile
    /\ wk' = [wk EXCEPT ![w] = [pc |-> "claim", i |-> 0, ri |-> 0]]

\* An exception leaves the statement `stage` of worker w: it is caught by
\* the worker's try/catch (the fields keep their values: it.x = it.x || ""),
\* or it rejects the worker's promise and with it enrichWithDetails.
Thrown(w, stage, saveOk) ==
    IF InTry(stage)
    THEN /\ AfterItem(w, saveOk)
         /\ ppc' = ppc
    ELSE /\ ppc' = "crashed"
         /\ UNCHANGED <<done, cacheFile, wk>>

SaveOks == IF Periodic THEN BOOLEAN ELSE {TRUE}

\* while (true) { const i = idx++; if (i >= items.length) break; ... }
Claim(w) ==
    /\ ppc = "running"
    /\ wk[w].pc = "claim"
    /\ LET r == ClaimLoop(idx, {}, all, cache)
           claimed == r.hits \cup (IF r.i <= Len(all) THEN {r.i} ELSE {})
       IN  /\ idx' = r.idx
           /\ all' = [n \in 1..Len(all) |->
                        IF n \in r.hits THEN FromCache(all[n], cache) ELSE all[n]]
           /\ done' = done + Cardinality(r.hits)
           /\ wk' = [wk EXCEPT ![w] =
                        IF r.i <= Len(all)
                        THEN [pc |-> "newPage", i |-> r.i, ri |-> 0]
                        ELSE [pc |-> "exit", i |-> 0, ri |-> 0]]
           /\ pobs' = [n \in 1..Len(all) |->
                        IF n \in claimed
                        THEN [pobs[n] EXCEPT
                                !.claims = @ + 1,
                                !.hit = CacheKey(all[n]) \in DOMAIN cache,
                                !.outcome = IF n \in r.hits THEN "hit" ELSE @]
                        ELSE pobs[n]]
    /\ UNCHANGED <<rt, listing, argv, att, runs, cfg, stateFile, dataset, pc, p, li, seen, obs,
                   poolCfg, cache, cacheFile, ppc>>

\* const page = await context.newPage()
NewPage(w, ok, saveOk) ==
    /\ ppc = "running"
    /\ wk[w].pc = "newPage"
    /\ cache' = cache
    /\ IF ok
       THEN /\ wk' = [wk EXCEPT ![w].pc = "attempt"]
            /\ pobs' = [NetSeen(pobs, wk[w].i, {"page"}) EXCEPT ![wk[w].i].open = 1]
            /\ UNCHANGED <<done, cacheFile, ppc>>
       ELSE /\ pobs' = [pobs EXCEPT ![wk[w].i].outcome = "failed"]
            /\ Thrown(w, "newPage", saveOk)
    /\ UNCHANGED <<rt, listing, argv, att, mainVars, poolCfg, idx>>

\* One call of the operation by withRetry(..., 2, 1000): it throws, or it
\* completes, writing the item's fields and the cache entry.
Attempt(w, d, saveOk) ==
    /\ ppc = "running"
    /\ wk[w].pc = "attempt"
    /\ LET i  == wk[w].i
           it == all[i]
           throws == AttemptThrows(it, d)
           s  == RetryStep(wk[w].ri, EnrichAttempts, EnrichBaseDelay,
                           [ok |-> ~throws, v |-> "enriched"])
           net == NetSeen(pobs, i, AttemptNet(it, d))
       IN  /\ all' = IF throws THEN all
                     ELSE [all EXCEPT ![i].f = AttemptFields(it, d)]
           /\ cache' = CacheAfter(cache, it, AttemptFields(it, d), throws)
           /\ CASE s.kind = "return" ->
                    /\ wk' = [wk EXCEPT ![w].pc = "close"]
                    /\ pobs' = [net EXCEPT ![i].outcome = "ok"]
                    /\ UNCHANGED <<done, cacheFile, ppc>>
                [] s.kind = "sleep" ->
                    /\ wk' = [wk EXCEPT ![w].ri = @ + 1]
                    /\ pobs' = net
                    /\ UNCHANGED <<done, cacheFile, ppc>>
                [] OTHER ->
                    /\ pobs' = [net EXCEPT ![i].outcome = "failed"]
                    /\ Thrown(w, "attempt", saveOk)
    /\ UNCHANGED <<rt, listing, argv, att, runs, cfg, stateFile, dataset, pc, p, li, seen, obs, poolCfg, idx>>

\* await page.close(), which may throw into the catch block.  It is the
\* statement after withRetry inside the try block, the only place where
\* the item's page is closed.
ClosePage(w, ok, saveOk) ==
    /\ ppc = "running"
    /\ wk[w].pc = "close"
    /\ cache' = cache
    /\ IF ok THEN AfterItem(w, saveOk) /\ ppc' = ppc
             ELSE Thrown(w, "close", saveOk)
    /\ pobs' = [pobs EXCEPT ![wk[w].i].open = 0]
    /\ UNCHANGED <<rt, listing, argv, att, mainVars, poolCfg, idx>>

\* await Promise.all(workers); await saveCache(); return
PoolJoin(saveOk) ==
    /\ ppc = "running"
    /\ \A w \in DOMAIN wk : wk[w].pc = "exit"
    /\ cacheFile' = SaveCache(poolCfg.cache, cache, cacheFile, saveOk)
    /\ ppc' = "returned"
    /\ UNCHANGED <<rt, listing, argv, att, mainVars, poolCfg, cache, idx, done, wk, pobs>>

\* The inputs of an attempt on item `it`, stage by stage: a later stage's
\* input is drawn only when the stage is reached.
AttemptInputs(it) ==
    UNION { UNION { UNION { UNION { UNION { UNION {
        { [gotoOk |-> g, direct |-> x1, again |-> x2, search1 |-> s1,
           parentOk |-> pk, parent |-> x3, search2 |-> s2] :
          s2 \in IF g /\ pk
                    /\ NeedSearch2(it, [NoInputs EXCEPT !.direct = x1, !.again = x2,
                                          !.search1 = s1, !.parent = x3])
                 THEN SearchIds ELSE {""} } :
        x3 \in IF g /\ pk /\ NeedParent(it, [NoInputs EXCEPT !.direct = x1,
                                                !.again = x2, !.search1 = s1])
               THEN Extracts ELSE {NoExtract} } :
        pk \in IF g /\ NeedParent(it, [NoInputs EXCEPT !.direct = x1,
                                          !.again = x2, !.search1 = s1])
               THEN BOOLEAN ELSE {TRUE} } :
        s1 \in IF g /\ NeedSearch1([NoInputs EXCEPT !.direct = x1, !.again = x2])
               THEN SearchIds ELSE {""} } :
        x2 \in IF g /\ NeedSettle([NoInputs EXCEPT !.direct = x1])
               THEN Extracts ELSE {NoExtract} } :
        x1 \in IF g THEN Extracts ELSE {NoExtract} } :
        g \in BOOLEAN }

NoPobs == [claims |-> 0, hit |-> FALSE, net |-> {}, outcome |-> "", open |-> 0]

PoolIdle ==
    /\ poolCfg = [test |-> FALSE, cache |-> FALSE]
    /\ cache = EmptyMap /\ cacheFile = NoCacheFile
    /\ idx = 0 /\ done = 0 /\ wk = <<>> /\ ppc = "none" /\ pobs = <<>>

\* Item lists main can pass: no two items with the same key, fields empty.
\* Row2 differs from Row1 in the title only, which the pool never reads, so
\* it is listed only after a Row1.
PoolRows == {Row1, Row2, Row4}
ItemLists(maxLen) ==
    { [n \in 1..Len(q) |-> NewItem(q[n])] :
        q \in { q \in SeqsUpTo(PoolRows, maxLen) :
                  /\ Len(q) >= 1
                  /\ \A m, n \in 1..Len(q) :
                        m # n => ItemKey(q[m]) # ItemKey(q[n])
                  /\ \A n \in 1..Len(q) :
                        q[n] = Row2 => \E m \in 1..(n - 1) : q[m] = Row1 } }

\* Cache files an earlier run can have left behind.
CacheFiles ==
    { SaveCache(TRUE, c, NoCacheFile, TRUE) :
        c \in { CacheKey(Row1) :> EmptyFields,
                CacheKey(Row4) :> FoundFields,
                (CacheKey(Row1) :> FoundFields) @@ (CacheKey(Row4) :> EmptyFields) } }
    \cup { NoCacheFile }

\* enrichWithDetails(context, all) is entered, after loadCache.
InitPool ==
    /\ rt = RtIdle
    /\ runs = 1 /\ cfg = NoConfig /\ stateFile = NoState /\ pc = "enrich"
    /\ p = 0 /\ li = 0 /\ obs = NoObs /\ dataset = NoDataset
    /\ listing = <<>> /\ argv = NoConfig /\ att = AttIdle
    /\ poolCfg \in [test : BOOLEAN, cache : BOOLEAN]
    /\ all \in ItemLists(MaxPoolLoad - Concurrency(poolCfg))
    /\ seen = KeysOf(all)
    /\ cacheFile \in IF poolCfg.cache THEN CacheFiles ELSE {NoCacheFile}
    /\ cache = LoadCache(poolCfg.cache, cacheFile)
    /\ idx = 1 /\ done = 0
    /\ wk = [w \in 1..Concurrency(poolCfg) |-> [pc |-> "claim", i |-> 0, ri |-> 0]]
    /\ ppc = "running"
    /\ pobs = [n \in 1..Len(all) |-> NoPobs]

NextPool ==
    \/ \E w \in DOMAIN wk : Claim(w)
    \/ \E w \in DOMAIN wk, ok \in BOOLEAN, saveOk \in SaveOks : NewPage(w, ok, saveOk)
    \/ \E w \in DOMAIN wk, saveOk \in SaveOks :
          \E d \in (IF wk[w].pc = "attempt" THEN AttemptInputs(all[wk[w].i]) ELSE {}) :
              Attempt(w, d, saveOk)
    \/ \E w \in DOMAIN wk, ok \in BOOLEAN, saveOk \in SaveOks : ClosePage(w, ok, saveOk)
    \/ \E saveOk \in BOOLEAN : PoolJoin(saveOk)

SpecPool == InitPool /\ [][NextPool]_vars

Init == rt = RtIdle /\ pc = "idle" /\ MainIdle /\ PoolIdle /\ att = AttIdle

Next ==
    \/ \E c \in Configs, resume \in BOOLEAN : StartRun(c, resume)
    \/ \E o \in ListOutcomes : ListAttemptRetry(o)
    \/ \E o \in ListOutcomes : ListAttemptExhausted(o)
    \/ \E o \in ListOutcomes : ListPageEmpty(o)
    \/ \E o \in ListOutcomes : ListPageRows(o)
    \/ \E ok \in BOOLEAN : SaveState(ok)
    \/ PaginationSleep
    \/ LoopExit
    \/ \E skipDetails \in BOOLEAN :
          \E fs \in [1..Len(all) -> DetailResults] : EnrichPhase(skipDetails, fs)
    \/ \E unlinkOk \in BOOLEAN : WriteAndCleanup(unlinkOk)
    \/ Kill
    \/ KillInSaveState

Spec == Init /\ [][Next]_vars

(***************************************************************************)
(* A job on a fixed listing: killed and restarted runs with the same flags *)
(***************************************************************************)
\* The decimal digits of k, as tokens.
Digits == <<"0", "1", "2", "3", "4", "5", "6", "7", "8", "9">>
RECURSIVE Numeral(_)
Numeral(k) == IF k < 10 THEN <<Digits[k + 1]>>
              ELSE Numeral(k \div 10) \o <<Digits[(k % 10) + 1]>>

\* The k-th rating of the site: a film with its own URL.
SiteRow(k) == [url |-> << <<"film">>, Numeral(k) >>,
               title |-> <<"A">>, type |-> "film",
               year |-> "2001", rating |-> 5, ratingDate |-> "01.02.2021"]

\* A listing of n pages of w rows each, all different, except that page d
\* (if d > 0) repeats the rows of page 1.
SitePage(pg, w) == [j \in 1..w |-> SiteRow((pg - 1) * w + j)]
Listings ==
    { [pg \in 1..n |-> IF pg = d THEN SitePage(1, w) ELSE SitePage(pg, w)] :
        n \in 0..PageCap, d \in 0..PageCap, w \in 1..MaxRowsPerPage }

\* What parseListPage returns for page pg of the listing when nothing fails.
PageRows(pages, pg) == IF pg <= Len(pages) THEN pages[pg] ELSE <<>>
ListingOutcome == [ok |-> TRUE, v |-> PageRows(listing, p)]

\* The pagination loop of main (lines 1201-1252) run from page pg without
\* interruption on a listing where no page fails: the final `all`.
RECURSIVE Walk(_, _, _, _, _)
Walk(pages, c, pg, a, sn) ==
    IF pg > MAX_PAGES(c) \/ PageRows(pages, pg) = <<>> THEN a
    ELSE LET r == AddRows(PageRows(pages, pg), a, sn, 0, FALSE, MAX_ITEMS(c))
             atMax == MAX_ITEMS(c) # Null /\ Len(r.all) >= MAX_ITEMS(c)
         IN  IF WalkBreaks(r.added, atMax) THEN r.all
             ELSE Walk(pages, c, pg + 1, r.all, r.seen)

\* enrichWithDetails outcomes that treat all items alike.
UniformResults(n) == { [k \in 1..n |-> f] : f \in DetailResults }

InitResume ==
    /\ rt = RtIdle /\ pc = "idle" /\ PoolIdle /\ att = AttIdle
    /\ runs = 0 /\ cfg = NoConfig /\ stateFile = NoState /\ p = 0 /\ li = 0
    /\ all = <<>> /\ seen = {} /\ obs = NoObs /\ dataset = NoDataset
    /\ listing \in Listings
    /\ argv \in Configs

NextResume ==
    \/ \E resume \in BOOLEAN : StartRun(argv, resume)
    \/ ListPageEmpty(ListingOutcome)
    \/ ListPageRows(ListingOutcome)
    \/ \E ok \in BOOLEAN : SaveState(ok)
    \/ PaginationSleep
    \/ LoopExit
    \/ \E skipDetails \in BOOLEAN :
          \E fs \in UniformResults(Len(all)) : EnrichPhase(skipDetails, fs)
    \/ \E unlinkOk \in BOOLEAN : WriteAndCleanup(unlinkOk)
    \/ Kill
    \/ KillInSaveState

SpecResume == InitResume /\ [][NextResume]_vars

(***************************************************************************)
(* A long pool run: enough items for the periodic saveCache                *)
(***************************************************************************)
\* Which items an earlier run left in the cache file (by index).
FlushHitSets == { {}, {BatchSaveThreshold}, {1, BatchSaveThreshold} }

\* enrichWithDetails(context, all) is entered in test mode (two workers)
\* with caching on, on a list of MaxFlushItems different films.
InitFlush ==
    /\ rt = RtIdle
    /\ runs = 1 /\ cfg = NoConfig /\ stateFile = NoState /\ pc = "enrich"
    /\ p = 0 /\ li = 0 /\ obs = NoObs /\ dataset = NoDataset
    /\ listing = <<>> /\ argv = NoConfig /\ att = AttIdle
    /\ poolCfg = [test |-> TRUE, cache |-> TRUE]
    /\ all = [n \in 1..MaxFlushItems |-> NewItem(SiteRow(n))]
    /\ seen = KeysOf(all)
    /\ cacheFile \in
          { SaveCache(TRUE, [k \in { CacheKey(SiteRow(n)) : n \in H } |-> EmptyFields],
                      NoCacheFile, TRUE) : H \in FlushHitSets }
    /\ cache = LoadCache(poolCfg.cache, cacheFile)
    /\ idx = 1 /\ done = 0
    /\ wk = [w \in 1..Concurrency(poolCfg) |-> [pc |-> "claim", i |-> 0, ri |-> 0]]
    /\ ppc = "running"
    /\ pobs = [n \in 1..Len(all) |-> NoPobs]

\* Nothing fails: pages open and close, every attempt completes (finding
\* nothing), every saveCache write succeeds.
NextFlush ==
    \/ \E w \in DOMAIN wk : Claim(w)
    \/ \E w \in DOMAIN wk : NewPage(w, TRUE, TRUE)
    \/ \E w \in DOMAIN wk : Attempt(w, NoInputs, TRUE)
    \/ \E w \in DOMAIN wk : ClosePage(w, TRUE, TRUE)
    \/ PoolJoin(TRUE)

SpecFlush == InitFlush /\ [][NextFlush]_vars

(***************************************************************************)
(* The cache across processes: loadCache, cache.set, lookups, saveCache    *)
(***************************************************************************)
\* A cache file that cannot be read or parsed (also: a write cut short).
GarbageCacheFile == [present |-> TRUE, valid |-> FALSE, json |-> JsonStringify(EmptyMap)]

CacheItems == { NewItem(Row1), NewItem(Row4) }

\* The entry written last by cache.set, and where it is now (history).
NoTrack == [k |-> <<>>, e |-> EmptyFields, inMem |-> FALSE, onDisk |-> FALSE]

\* A process has started (cache = new Map()) and has not called loadCache.
InitCache ==
    /\ rt = RtIdle /\ att = AttIdle
    /\ runs = 1 /\ cfg = NoConfig /\ stateFile = NoState /\ pc = "start"
    /\ p = 0 /\ li = 0 /\ obs = NoObs /\ dataset = NoDataset
    /\ all = <<>> /\ seen = {}
    /\ listing = <<>> /\ argv = NoConfig
    /\ poolCfg \in [test : {FALSE}, cache : BOOLEAN]
    /\ cache = EmptyMap
    /\ cacheFile \in CacheFiles \cup {GarbageCacheFile}
    /\ idx = 0 /\ done = 0 /\ wk = <<>> /\ ppc = "none"
    /\ pobs = NoTrack

\* await loadCache()  (main, line 1174)
LoadCacheCall ==
    /\ pc = "start"
    /\ IF LoadCacheEscapes(poolCfg.cache, cacheFile)
       THEN pc' = "crashed" /\ cache' = cache
       ELSE pc' = "cached" /\ cache' = LoadCache(poolCfg.cache, cacheFile)
    /\ pobs' = [pobs EXCEPT !.inMem = poolCfg.cache /\ pobs.onDisk]
    /\ all' = <<>>
    /\ UNCHANGED <<rt, listing, argv, att, runs, cfg, stateFile, dataset, p, li,
                   seen, obs, poolCfg, cacheFile, idx, done, wk, ppc>>

\* cache.set(cacheKey, entry) by a completed attempt on item `it`.
CacheSetCall(it, e) ==
    /\ pc = "cached"
    /\ cache' = CacheAfter(cache, it, e, FALSE)
    /\ pobs' = [k |-> CacheKey(it), e |-> e, inMem |-> TRUE, onDisk |-> FALSE]
    /\ all' = <<>>
    /\ UNCHANGED <<rt, listing, argv, att, runs, cfg, stateFile, dataset, pc, p, li,
                   seen, obs, poolCfg, cacheFile, idx, done, wk, ppc>>

\* The worker's lookup for item `it` (lines 984-995): on a hit the entry is
\* copied onto the item, on a miss the item is left for the network.
CacheLookup(it) ==
    /\ pc = "cached"
    /\ all' = << IF CacheHas(cache, CacheKey(it)) THEN FromCache(it, cache) ELSE it >>
    /\ UNCHANGED <<rt, listing, argv, att, runs, cfg, stateFile, dataset, pc, p, li,
                   seen, obs, poolVars>>

\* await saveCache()
SaveCacheCall(ok) ==
    /\ pc = "cached"
    /\ cacheFile' = SaveCache(poolCfg.cache, cache, cacheFile, ok)
    /\ pobs' = [pobs EXCEPT !.onDisk = IF poolCfg.cache /\ ok THEN pobs.inMem ELSE @]
    /\ all' = <<>>
    /\ UNCHANGED <<rt, listing, argv, att, runs, cfg, stateFile, dataset, pc, p, li,
                   seen, obs, poolCfg, cache, idx, done, wk, ppc>>

\* The process ends (or is killed) and a new one starts, with its own flag.
NextProcess(cacheFlag) ==
    /\ pc = "cached"
    /\ runs < MaxRuns
    /\ runs' = runs + 1
    /\ pc' = "start"
    /\ poolCfg' = [poolCfg EXCEPT !.cache = cacheFlag]
    /\ cache' = EmptyMap
    /\ pobs' = [pobs EXCEPT !.inMem = FALSE]
    /\ all' = <<>>
    /\ UNCHANGED <<rt, listing, argv, att, cfg, stateFile, dataset, p, li,
                   seen, obs, cacheFile, idx, done, wk, ppc>>

\* The process is killed while fs.writeFile of saveCache is writing.
KillInSaveCache(cacheFlag) ==
    /\ pc = "cached"
    /\ poolCfg.cache
    /\ runs < MaxRuns
    /\ runs' = runs + 1
    /\ pc' = "start"
    /\ cacheFile' = GarbageCacheFile
    /\ poolCfg' = [poolCfg EXCEPT !.cache = cacheFlag]
    /\ cache' = EmptyMap
    /\ pobs' = [pobs EXCEPT !.inMem = FALSE, !.onDisk = FALSE]
    /\ all' = <<>>
    /\ UNCHANGED <<rt, listing, argv, att, cfg, stateFile, dataset, p, li,
                   seen, obs, idx, done, wk, ppc>>

NextCache ==
    \/ LoadCacheCall
    \/ \E it \in CacheItems, e \in DetailResults : CacheSetCall(it, e)
    \/ \E it \in CacheItems : CacheLookup(it)
    \/ \E ok \in BOOLEAN : SaveCacheCall(ok)
    \/ \E cacheFlag \in BOOLEAN : NextProcess(cacheFlag)
    \/ \E cacheFlag \in BOOLEAN : KillInSaveCache(cacheFlag)

SpecCache == InitCache /\ [][NextCache]_vars

(***************************************************************************)
(* extractImdbOnPage (lines 739-895)                                       *)
(***************************************************************************)
\* Identifiers a page can carry; the patterns with \d{6,} need six digits.
ImdbIds == {"tt1111111", "tt2222222", "tt12345"}
SixDigits(id) == id \in {"tt1111111", "tt2222222"}

\* A rendered page is its identifier-bearing fragments in document order:
\*   "button"  <a class="button button-imdb" href=...>
\*   "anchor"  <a href=...> with "imdb" in the href
\*   "ld"      <script type="application/ld+json"> with an IMDb URL, written
\*             plainly or with JSON escapes inside the identifier
\*   "text"    other markup or text, with a bare identifier or an IMDb URL
\* An href with id "" is an IMDb link that carries no title identifier.
Fragments ==
    [kind : {"button", "anchor"}, form : {"href"}, id : ImdbIds \cup {""}]
    \cup [kind : {"ld"}, form : {"url", "escaped"}, id : ImdbIds]
    \cup [kind : {"text"}, form : {"bare", "url"}, id : ImdbIds]
HtmlPages == SeqsUpTo(Fragments, MaxFragments)

RECURSIVE FirstNonEmpty(_)
FirstNonEmpty(ids) ==
    IF ids = <<>> THEN ""
    ELSE IF ids[1] # "" THEN ids[1] ELSE FirstNonEmpty(Tail(ids))

\* The selectors of lines 821-831, by what they match here.
SelButton(f) == f.kind = "button"
SelTitleHref(f) == f.kind \in {"button", "anchor"} /\ f.id # ""
SelImdbHref(f) == f.kind \in {"button", "anchor"}

\* page.$(sel) takes the first match in document order; the identifier is
\* what /(tt\d+)/i finds in its href.
HrefId(hits) == IF hits = <<>> THEN "" ELSE hits[1].id

\* The selector loop (lines 832-849): the first selector whose element has
\* an identifier in its href returns.
BySelectors(page) ==
    FirstNonEmpty(<< HrefId(SelectSeq(page, SelButton)),
                     HrefId(SelectSeq(page, SelTitleHref)),
                     HrefId(SelectSeq(page, SelImdbHref)) >>)

\* outerHTML.match(/\b(tt\d{6,})\b/gi): every identifier of six digits or
\* more written plainly anywhere in the markup, scripts and hrefs included.
InMarkup(f) == f.form # "escaped" /\ SixDigits(f.id)
HtmlText(page) ==
    LET hits == SelectSeq(page, InMarkup)
    IN  [n \in 1..Len(hits) |-> hits[n].id]

\* JSON.stringify(JSON.parse(script.textContent)).match(...) per script
InJson(f) == f.kind = "ld" /\ SixDigits(f.id)
JsonScripts(page) ==
    LET hits == SelectSeq(page, InJson)
    IN  [n \in 1..Len(hits) |-> [type |-> "json_script", data |-> <<hits[n].id>>]]

\* hiddenImdb (lines 774-815): html_text is pushed first, the scripts last.
HiddenImdb(page) ==
    (IF HtmlText(page) # <<>>
     THEN << [type |-> "html_text", data |-> HtmlText(page)] >> ELSE <<>>)
    \o JsonScripts(page)

\* Lines 852-871: the first html_text or json_script entry returns its
\* first match.
UseHidden(page) ==
    IF HiddenImdb(page) = <<>> THEN "" ELSE HiddenImdb(page)[1].data[1]

\* html.match(/https?:\/\/(?:www\.)?imdb\.com\/title\/(tt\d+)/i)
InUrl(f) == f.form \in {"href", "url"} /\ f.id # ""
UrlRegex(page) ==
    LET hits == SelectSeq(page, InUrl)
    IN  IF hits = <<>> THEN "" ELSE hits[1].id

\* html.match(/\b(tt\d{6,})\b/i)
RawRegex(page) == IF HtmlText(page) = <<>> THEN "" ELSE HtmlText(page)[1]

\* extractImdbOnPage: the returns in the order of the code; any exception
\* is caught and gives the empty result.
ExtractImdbOnPage(page, ok) ==
    LET id == IF ok
              THEN FirstNonEmpty(<< BySelectors(page), UseHidden(page),
                                    UrlRegex(page), RawRegex(page) >>)
              ELSE ""
    IN  [imdb_id |-> id, imdb_url |-> ImdbUrl(id)]

InitExtract ==
    /\ rt = RtIdle /\ pc = "none" /\ MainIdle /\ PoolIdle
    /\ att \in { [stage |-> "page", page |-> pg, ok |-> TRUE,
                   imdb_id |-> "", imdb_url |-> <<>>] : pg \in HtmlPages }

\* await extractImdbOnPage(page)
ExtractCall(ok) ==
    /\ att.stage = "page"
    /\ att' = [att EXCEPT !.stage = "extracted", !.ok = ok,
                   !.imdb_id = ExtractImdbOnPage(att.page, ok).imdb_id,
                   !.imdb_url = ExtractImdbOnPage(att.page, ok).imdb_url]
    /\ UNCHANGED <<rt, listing, argv, mainVars, poolVars>>

NextExtract == \E ok \in BOOLEAN : ExtractCall(ok)

SpecExtract == InitExtract /\ [][NextExtract]_vars

(***************************************************************************)
(* The scored search: tryImdbJsonData of incremental_scraper.mjs and the   *)
(* page.evaluate body of searchImdbByTitle of fix_missing_imdb.mjs         *)
(***************************************************************************)
TopN == 10
FallbackN == 3

\* Titles are sequences of words; toLowerCase works word by word.
Lower(w) == IF w = "X" THEN "x" ELSE w
LowerTitle(t) == [n \in 1..Len(t) |-> Lower(t[n])]

\* a.includes(b)
Includes(a, b) ==
    \E i \in 0..(Len(a) - Len(b)) : SubSeq(a, i + 1, i + Len(b)) = b

\* titleWords.filter(word => itemWords.some(...)).length
MatchingWords(titleLower, itemLower) ==
    Cardinality({ n \in 1..Len(titleLower) :
                    \E m \in 1..Len(itemLower) : itemLower[m] = titleLower[n] })

\* !imdbId || !imdbId.startsWith('tt')
ValidId(id) == id \in {"tt1", "tt2", "tt3"}

Score(title, year, item) ==
    LET yearMatch == year = "" \/ item.year = "" \/ item.year = year
        titleLower == LowerTitle(title)
        itemTitleLower == LowerTitle(item.title)
    IN  (IF yearMatch THEN 100 ELSE 0)
        + (IF titleLower = itemTitleLower THEN 200
           ELSE IF Includes(itemTitleLower, titleLower) THEN 150
           ELSE IF Includes(titleLower, itemTitleLower) THEN 100
           ELSE MatchingWords(titleLower, itemTitleLower) * 20)

\* if (score > 0) scoredResults.push(...)
KeepsAny(score) == TRUE
Keeps(score) == score > 0

\* titleResults.slice(0, n)
Slice(results, n) == SubSeq(results, 1, IF Len(results) < n THEN Len(results) ELSE n)

RECURSIVE ScoredResults(_, _, _)
\* The loop over the first ten results: candidates without a tt identifier
\* are skipped, the others are pushed with their score when it is kept.
ScoredResults(title, year, items) ==
    IF items = <<>> THEN <<>>
    ELSE LET item == Head(items)
             rest == ScoredResults(title, year, Tail(items))
         IN  IF ValidId(item.id) /\ Keeps(Score(title, year, item))
             THEN << [imdb_id |-> item.id, imdb_url |-> ImdbUrl(item.id),
                      score |-> Score(title, year, item)] >> \o rest
             ELSE rest

RECURSIVE SortByScoreLastWins(_)
SortByScoreLastWins(scored) ==
    IF scored = <<>> THEN <<>>
    ELSE LET x == scored[Len(scored)]
             s == SortByScoreLastWins(SubSeq(scored, 1, Len(scored) - 1))
             k == Cardinality({ n \in 1..Len(s) : s[n].score > x.score })
         IN  SubSeq(s, 1, k) \o <<x>> \o SubSeq(s, k + 1, Len(s))
RECURSIVE SortByScore(_)
\* scoredResults.sort((a, b) => b.score - a.score): descending by score,
\* equal scores keep their order (Array.prototype.sort is stable).
SortByScore(scored) ==
    IF scored = <<>> THEN <<>>
    ELSE LET x == scored[Len(scored)]
             s == SortByScore(SubSeq(scored, 1, Len(scored) - 1))
             k == Cardinality({ n \in 1..Len(s) : s[n].score >= x.score })
         IN  SubSeq(s, 1, k) \o <<x>> \o SubSeq(s, k + 1, Len(s))

NoResult == [imdb_id |-> "", imdb_url |-> <<>>]

RECURSIVE FallbackGuess(_, _)
\* incremental_scraper.mjs, lines 393-408: the first of the first three
\* results whose title contains the query or is contained in it.
FallbackGuess(title, items) ==
    IF items = <<>> THEN NoResult
    ELSE LET item == Head(items)
         IN  IF /\ ValidId(item.id)
                /\ \/ Includes(LowerTitle(item.title), LowerTitle(title))
                   \/ Includes(LowerTitle(title), LowerTitle(item.title))
             THEN [imdb_id |-> item.id, imdb_url |-> ImdbUrl(item.id)]
             ELSE FallbackGuess(title, Tail(items))

\* The value the search returns for the results of the page: the first of
\* the sorted scored results, else (incremental_scraper.mjs only) the
\* guess, else nothing.
TryImdbJsonData(file, title, year, results) ==
    LET scored == SortByScore(ScoredResults(title, year, Slice(results, TopN)))
    IN  IF scored # <<>>
        THEN [imdb_id |-> scored[1].imdb_id, imdb_url |-> scored[1].imdb_url]
        ELSE IF file = "incremental_scraper"
        THEN FallbackGuess(title, Slice(results, FallbackN))
        ELSE NoResult

\* titleResults.slice(0, 5) of scrape_csfd.mjs
MainTopN == 5

RECURSIVE FirstMatch(_, _, _)
\* scrape_csfd.mjs, lines 633-653: the first result whose title contains
\* the query or is contained in it, whose year agrees or is unknown, and
\* which has a tt identifier.
FirstMatch(title, year, items) ==
    IF items = <<>> THEN NoResult
    ELSE LET item == Head(items)
             titleMatch == \/ Includes(LowerTitle(item.title), LowerTitle(title))
                           \/ Includes(LowerTitle(title), LowerTitle(item.title))
             yearMatch == year = "" \/ item.year = "" \/ item.year = year
         IN  IF titleMatch /\ yearMatch /\ ValidId(item.id)
             THEN [imdb_id |-> item.id, imdb_url |-> ImdbUrl(item.id)]
             ELSE FirstMatch(title, year, Tail(items))

\* tryImdbJsonData of scrape_csfd.mjs: the first match of the first five
\* results, else the guess among the first three, else nothing.
TryImdbJsonDataMain(title, year, results) ==
    LET m == FirstMatch(title, year, Slice(results, MainTopN))
    IN  IF m # NoResult THEN m
        ELSE FallbackGuess(title, Slice(results, FallbackN))

\* What a result page can list.
CandidateTitles == { <<>>, <<"X">>, <<"x", "y">>, <<"y", "x">>, <<"z">> }
Candidates == [id : {"tt1", "tt2", "nm1"}, title : CandidateTitles,
               year : {"", "2000", "2001"}]
Filler == [id |-> "tt3", title |-> <<"z">>, year |-> "2001"]
ResultLists ==
    SeqsUpTo(Candidates, MaxCandidates)
    \cup { [n \in 1..(k + 1) |-> IF n <= k THEN Filler ELSE c] :
             k \in {TopN - 1, TopN}, c \in Candidates }

InitScore ==
    /\ rt = RtIdle /\ pc = "none" /\ MainIdle /\ PoolIdle
    /\ \E f \in {"incremental_scraper", "fix_missing_imdb"},
          t \in {<<"x">>, <<"x", "y">>}, y \in {"", "2000"}, r \in ResultLists :
          att = [stage |-> "results", file |-> f, title |-> t, year |-> y,
                 results |-> r, out |-> NoResult, main |-> NoResult]

\* await page.evaluate(...) on the result page: the value of the search
\* of att.file, and the value scrape_csfd.mjs gets from the same page.
ScoreCall ==
    /\ att.stage = "results"
    /\ att' = [att EXCEPT !.stage = "returned",
                          !.out = TryImdbJsonData(att.file, att.title, att.year,
                                                  att.results),
                          !.main = TryImdbJsonDataMain(att.title, att.year,
                                                       att.results)]
    /\ UNCHANGED <<rt, listing, argv, mainVars, poolVars>>

NextScore == ScoreCall

SpecScore == InitScore /\ [][NextScore]_vars

(***************************************************************************)
(* Strings character by character; cleanTitle                              *)
(***************************************************************************)
\* A string is a sequence of characters: a letter, a blank, a tab, or the
\* six characters of the marker "(více)" taken as one.
\* Characters counted by String.length: the marker "(více)" has six.
StrLen(str) == Len(str) + 5 * Cardinality({ n \in 1..Len(str) : str[n] = More })

\* \s
IsSpace(ch) == ch \in {" ", "tab"}

RECURSIVE TrimEnd(_)
TrimEnd(str) ==
    IF str # <<>> /\ IsSpace(str[Len(str)])
    THEN TrimEnd(SubSeq(str, 1, Len(str) - 1)) ELSE str
RECURSIVE TrimStart(_)
TrimStart(str) ==
    IF str # <<>> /\ IsSpace(str[1]) THEN TrimStart(Tail(str)) ELSE str
\* .trim()
Trim(str) == TrimEnd(TrimStart(str))

RECURSIVE Collapse(_)
\* .replace(/\s+/g, ' ')
Collapse(str) ==
    IF str = <<>> THEN <<>>
    ELSE IF IsSpace(str[1])
    THEN <<" ">> \o Collapse(TrimStart(str))
    ELSE <<str[1]>> \o Collapse(Tail(str))

\* .replace(/\s*\(více\)\s*$/i, ''): one marker at the end, with the
\* whitespace around it.
RemoveMore(str) ==
    LET t == TrimEnd(str)
    IN  IF t # <<>> /\ t[Len(t)] = More
        THEN TrimEnd(SubSeq(t, 1, Len(t) - 1)) ELSE str

\* cleanTitle of scrape_csfd.mjs (whitespace first) and of
\* incremental_scraper.mjs (marker first).
CleanTitle(file, title) ==
    IF file = "incremental_scraper"
    THEN Trim(Collapse(RemoveMore(Trim(title))))
    ELSE Trim(RemoveMore(Collapse(Trim(title))))

TitleChars == {"a", " ", "tab", More}
TitleStrings == SeqsUpTo(TitleChars, MaxTitleLen)

InitClean ==
    /\ rt = RtIdle /\ pc = "none" /\ MainIdle /\ PoolIdle
    /\ \E f \in {"scrape_csfd", "incremental_scraper"}, str \in TitleStrings :
          att = [stage |-> "raw", file |-> f, title |-> str,
                 once |-> <<>>, twice |-> <<>>]

\* cleanTitle applied to a title, and to its own result.
CleanCall ==
    /\ att.stage = "raw"
    /\ att' = [att EXCEPT !.stage = "cleaned",
                          !.once = CleanTitle(att.file, att.title),
                          !.twice = CleanTitle(att.file,
                                               CleanTitle(att.file, att.title))]
    /\ UNCHANGED <<rt, listing, argv, mainVars, poolVars>>

NextClean == CleanCall

SpecClean == InitClean /\ [][NextClean]_vars

(***************************************************************************)
(* searchImdbByTitle of scrape_csfd.mjs (lines 572-618), of                *)
(* incremental_scraper.mjs (with performImdbSearch) and of                 *)
(* fix_missing_imdb.mjs, step by step                                      *)
(***************************************************************************)
SearchFiles == {"scrape_csfd", "incremental_scraper", "fix_missing_imdb"}

\* What the browser and the result page do in one call: whether newPage,
\* goto and close succeed, what the JSON of the page gives ("found": a
\* scored result, "none", "malformed": the evaluation throws), and what
\* the selector fallback of scrape_csfd.mjs finds.
SearchWorlds ==
    [newPageOk : BOOLEAN, gotoOk : BOOLEAN, closeOk : BOOLEAN,
     json : {"found", "none", "malformed"}, selector : {"", "tt2"}]

\* if (!title || title.length < 2) return empty
TooShort(title) == title = <<>> \/ StrLen(title) < 2

\* The title the query is made with; fix_missing_imdb.mjs does not clean.
SearchTitle(file, title) ==
    IF file = "fix_missing_imdb" THEN title ELSE CleanTitle(file, title)

\* Where an exception thrown by the statement `at` goes: to a catch block
\* of the search, which returns the empty result, or to the caller.
Escapes(file, at) ==
    file = "fix_missing_imdb" /\ at \in {"newPage", "close"}

\* Whether the page is closed although the statement `at` threw.
ClosesAfterThrow(file, at) ==
    file \in {"incremental_scraper", "fix_missing_imdb"} /\ at \in {"goto", "parse"}

\* What the parsing of the result page gives ("" for nothing).
ParseResult(file, w) ==
    IF w.json = "found" THEN "tt1"
    ELSE IF file = "scrape_csfd" THEN w.selector
    ELSE ""

InitSearch ==
    /\ rt = RtIdle /\ pc = "none" /\ MainIdle /\ PoolIdle
    /\ \E f \in SearchFiles, str \in TitleStrings, w \in SearchWorlds :
          att = [stage |-> "call", file |-> f, title |-> str, w |-> w,
                 opened |-> 0, open |-> 0, queried |-> FALSE,
                 pending |-> "", out |-> ""]

\* The guards before the try block.
SearchGuard ==
    /\ att.stage = "call"
    /\ att' = IF TooShort(att.title) \/ SearchTitle(att.file, att.title) = <<>>
              THEN [att EXCEPT !.stage = "returned"]
              ELSE [att EXCEPT !.stage = "newPage"]
    /\ UNCHANGED <<rt, listing, argv, mainVars, poolVars>>

\* const page = await context.newPage()
SearchNewPage ==
    /\ att.stage = "newPage"
    /\ att' = IF att.w.newPageOk
              THEN [att EXCEPT !.stage = "goto", !.opened = @ + 1, !.open = @ + 1]
              ELSE IF Escapes(att.file, "newPage")
              THEN [att EXCEPT !.stage = "thrown"]
              ELSE [att EXCEPT !.stage = "returned"]
    /\ UNCHANGED <<rt, listing, argv, mainVars, poolVars>>

\* await page.goto(searchUrl, ...)
SearchGoto ==
    /\ att.stage = "goto"
    /\ att' = IF att.w.gotoOk
              THEN [att EXCEPT !.stage = "parse", !.queried = TRUE]
              ELSE IF ClosesAfterThrow(att.file, "goto")
              THEN [att EXCEPT !.stage = "close", !.queried = TRUE]
              ELSE [att EXCEPT !.stage = "returned", !.queried = TRUE]
    /\ UNCHANGED <<rt, listing, argv, mainVars, poolVars>>

\* tryImdbJsonData and the selectors, or page.evaluate of
\* fix_missing_imdb.mjs, which throws on a malformed page.
SearchParse ==
    /\ att.stage = "parse"
    /\ att' = IF att.file = "fix_missing_imdb" /\ att.w.json = "malformed"
              THEN [att EXCEPT !.stage = "close"]
              ELSE [att EXCEPT !.stage = "close",
                               !.pending = ParseResult(att.file, att.w)]
    /\ UNCHANGED <<rt, listing, argv, mainVars, poolVars>>

\* await page.close(), on the way out
SearchClose ==
    /\ att.stage = "close"
    /\ att' = IF att.w.closeOk
              THEN [att EXCEPT !.stage = "returned", !.open = @ - 1,
                               !.out = att.pending]
              ELSE IF Escapes(att.file, "close")
              THEN [att EXCEPT !.stage = "thrown"]
              ELSE [att EXCEPT !.stage = "returned"]
    /\ UNCHANGED <<rt, listing, argv, mainVars, poolVars>>

NextSearch ==
    SearchGuard \/ SearchNewPage \/ SearchGoto \/ SearchParse \/ SearchClose

SpecSearch == InitSearch /\ [][NextSearch]_vars

(***************************************************************************)
(* extractDescriptionOnPage (lines 503-547)                                *)
(***************************************************************************)
DescMinText == 10
DescLimit == 250
DescMinDot == 100


\* .replace(/\s*\(více\)\s*$/, '').trim() at the end of the plot text
CleanPlot(text) ==
    LET t == TrimEnd(text)
    IN  IF t # <<>> /\ t[Len(t)] = More
        THEN TrimEnd(SubSeq(t, 1, Len(t) - 1)) ELSE t

\* str.lastIndexOf('.'), counted from 0, -1 when there is none
LastIndexOf(str, ch) ==
    IF \E n \in 1..Len(str) : str[n] = ch
    THEN (CHOOSE n \in 1..Len(str) :
             str[n] = ch /\ \A m \in (n + 1)..Len(str) : str[m] # ch) - 1
    ELSE -1

\* str.substring(0, end)
Substring0(str, end) == SubSeq(str, 1, IF end < Len(str) THEN end ELSE Len(str))

\* Lines 528-537: cut at the last full stop when it lies beyond index 100,
\* else cut at 250 and append "...".
Truncate(cleaned) ==
    IF Len(cleaned) > DescLimit
    THEN LET truncated == Substring0(cleaned, DescLimit)
             lastDot == LastIndexOf(truncated, ".")
         IN  IF lastDot > DescMinDot
             THEN Substring0(truncated, lastDot + 1)
             ELSE truncated \o <<".", ".", ".">>
    ELSE cleaned

\* extractDescriptionOnPage for a page whose first matching plot element
\* has the given text (<<>>: no element, or only short ones); an exception
\* gives "".
ExtractDescriptionOnPage(text, ok) ==
    IF ok /\ StrLen(TrimEnd(text)) > DescMinText
    THEN Truncate(CleanPlot(text)) ELSE <<>>

\* Plot texts: letters with at most one full stop, with or without the
\* trailing marker.
DescLengths == {0, DescMinText - 4, DescMinText, DescMinText + 1}
               \cup ((DescLimit - 2)..MaxDescLen)
PlotTexts ==
    { [n \in 1..len |-> IF n = dot THEN "." ELSE "a"]
        \o (IF more THEN <<" ", More>> ELSE <<>>) :
      len \in DescLengths, dot \in 0..MaxDescLen, more \in BOOLEAN }

InitDescribe ==
    /\ rt = RtIdle /\ pc = "none" /\ MainIdle /\ PoolIdle
    /\ \E text \in PlotTexts :
          att = [stage |-> "plot", text |-> text, ok |-> TRUE, out |-> <<>>]

\* const description = await extractDescriptionOnPage(page)
DescribeCall(ok) ==
    /\ att.stage = "plot"
    /\ att' = [att EXCEPT !.stage = "described", !.ok = ok,
                          !.out = ExtractDescriptionOnPage(att.text, ok)]
    /\ UNCHANGED <<rt, listing, argv, mainVars, poolVars>>

NextDescribe == \E ok \in BOOLEAN : DescribeCall(ok)

SpecDescribe == InitDescribe /\ [][NextDescribe]_vars

(***************************************************************************)
(* One enrichment attempt, step by step (lines 1004-1107)                  *)
(***************************************************************************)
UrlSeason == << <<"film">>, <<"1">>, <<"2">>, <<"3">> >>

\* Items of every kind, with and without a path below the title.
AttemptItems ==
    { NewItem([url |-> u, title |-> <<"A">>, type |-> k,
               year |-> "2001", rating |-> 5, ratingDate |-> "01.02.2021"]) :
        u \in {UrlFilm1, UrlEp12, UrlSeason},
        k \in {"film", "episode", "season", "series"} }

\* What the extractors can find on the item's page and on the parent page:
\* the parent's identifier and title differ from the item's.
AttemptExtracts ==
    Extracts \cup { [imdb_id |-> "tt1", original_title |-> <<>>, sec |-> TRUE],
                    [imdb_id |-> "tt2", original_title |-> <<"P">>, sec |-> TRUE] }

AttemptWorld ==
    [gotoOk : BOOLEAN, direct : AttemptExtracts, again : {NoExtract, FoundExtract},
     search1 : SearchIds, parentOk : BOOLEAN, parent : AttemptExtracts,
     search2 : SearchIds]

NoFound == [imdb |-> "", orig |-> <<>>]

\* The order of the steps of the attempt (lines 1006-1094).
NextStageParentFirst(stage) ==
    CASE stage = "goto" -> "extract"
      [] stage = "extract" -> "parent"
      [] stage = "parent" -> "search"
      [] stage = "search" -> "search2"
      [] stage = "search2" -> "done"
NextStage(stage) ==
    CASE stage = "goto" -> "extract"
      [] stage = "extract" -> "search"
      [] stage = "search" -> "parent"
      [] stage = "parent" -> "search2"
      [] stage = "search2" -> "done"

InitAttempt ==
    /\ rt = RtIdle /\ pc = "none" /\ MainIdle /\ PoolIdle
    /\ att \in { [stage |-> "goto", it |-> it, d |-> d, visits |-> <<>>,
                   own |-> NoFound, pre |-> NoFound, par |-> NoFound,
                   cur |-> NoFound, log |-> <<>>] :
                 it \in AttemptItems, d \in AttemptWorld }

\* page.goto(it.url), acceptCookies, the waits (lines 1006-1016)
AttGoto ==
    /\ att.stage = "goto"
    /\ att' = [att EXCEPT !.visits = Append(@, att.it.url),
                          !.log = Append(@, "goto"),
                          !.stage = IF att.d.gotoOk THEN NextStage("goto") ELSE "thrown"]
    /\ UNCHANGED <<rt, listing, argv, mainVars, poolVars>>

\* The extractors on the item's own page and the quick retry (1019-1037)
AttExtract ==
    /\ att.stage = "extract"
    /\ att' = [att EXCEPT !.own = AfterSettle(att.d), !.cur = AfterSettle(att.d),
                          !.log = @ \o <<"extract">>
                                    \o (IF NeedSettle(att.d) THEN <<"settle">> ELSE <<>>),
                          !.stage = NextStage("extract")]
    /\ UNCHANGED <<rt, listing, argv, mainVars, poolVars>>

\* Search by original title (1040-1048)
AttSearch ==
    /\ att.stage = "search"
    /\ att' = [att EXCEPT !.pre = AfterSearch1(att.d), !.cur = AfterSearch1(att.d),
                          !.log = @ \o (IF NeedSearch1(att.d) THEN <<"search">> ELSE <<>>),
                          !.stage = NextStage("search")]
    /\ UNCHANGED <<rt, listing, argv, mainVars, poolVars>>

\* The parent page fallback (1051-1072): one goto and the extractors for
\* what is still empty, or nothing.
AttParent ==
    /\ att.stage = "parent"
    /\ att' = IF ~NeedParent(att.it, att.d)
              THEN [att EXCEPT !.par = att.cur, !.stage = NextStage("parent")]
              ELSE IF ~att.d.parentOk
              THEN [att EXCEPT !.visits = Append(@, ParentTitleUrl(att.it.url)),
                               !.log = Append(@, "parent"),
                               !.stage = "thrown"]
              ELSE [att EXCEPT !.visits = Append(@, ParentTitleUrl(att.it.url)),
                               !.log = Append(@, "parent"),
                               !.cur = AfterParent(att.it, att.d),
                               !.par = AfterParent(att.it, att.d),
                               !.stage = NextStage("parent")]
    /\ UNCHANGED <<rt, listing, argv, mainVars, poolVars>>

\* The second search and the write to the item (1075-1094)
AttFinish ==
    /\ att.stage = "search2"
    /\ att' = [att EXCEPT !.cur = AfterSearch2(att.it, att.d),
                          !.it = [att.it EXCEPT !.f = AttemptFields(att.it, att.d)],
                          !.log = @ \o (IF NeedSearch2(att.it, att.d)
                                        THEN <<"search">> ELSE <<>>)
                                    \o <<"write">>,
                          !.stage = NextStage("search2")]
    /\ UNCHANGED <<rt, listing, argv, mainVars, poolVars>>

NextAttempt == AttGoto \/ AttExtract \/ AttSearch \/ AttParent \/ AttFinish

SpecAttempt == InitAttempt /\ [][NextAttempt]_vars

\* One run that is left alone: no kill, and a page limit the walk can reach.
StartRunBounded(c, resume) ==
    runs = 0 /\ MAX_PAGES(c) <= PageCap /\ StartRun(c, resume)

\* What earlier runs can have left on disk: nothing, a checkpoint, or a
\* checkpoint cut short.
LeftStates ==
    { NoState, CorruptState,
      [present |-> TRUE, readable |-> TRUE, lastPage |-> StateSaveInterval,
       items |-> <<NewItem(Row1)>>],
      [present |-> TRUE, readable |-> TRUE, lastPage |-> StateSaveInterval,
       items |-> <<NewItem(Row4), NewItem(Row2)>>] }

InitLive ==
    /\ rt = RtIdle /\ pc = "idle" /\ PoolIdle /\ att = AttIdle
    /\ runs = 0 /\ cfg = NoConfig /\ p = 0 /\ li = 0
    /\ all = <<>> /\ seen = {} /\ obs = NoObs /\ dataset = NoDataset
    /\ listing = <<>> /\ argv = NoConfig
    /\ stateFile \in LeftStates

NextLive ==
    \/ \E c \in Configs, resume \in BOOLEAN : StartRunBounded(c, resume)
    \/ \E o \in ListOutcomes : ListAttemptRetry(o)
    \/ \E o \in ListOutcomes : ListAttemptExhausted(o)
    \/ \E o \in ListOutcomes : ListPageEmpty(o)
    \/ \E o \in ListOutcomes : ListPageRows(o)
    \/ \E ok \in BOOLEAN : SaveState(ok)
    \/ PaginationSleep
    \/ LoopExit
    \/ \E skipDetails \in BOOLEAN :
          \E fs \in [1..Len(all) -> DetailResults] : EnrichPhase(skipDetails, fs)
    \/ \E unlinkOk \in BOOLEAN : WriteAndCleanup(unlinkOk)

\* Every await of main settles (navigation and waits have timeouts), so a
\* started run keeps taking steps.
SpecLive == InitLive /\ [][NextLive]_vars /\ WF_vars(NextLive)

NextRetry ==
    \/ \E o \in FnOutcomes : RetryInvoke(o)
    \/ RetryFallThrough

InitRetry ==
    rt \in RetryCalls /\ pc = "none" /\ MainIdle /\ PoolIdle /\ att = AttIdle

SpecRetry == InitRetry /\ [][NextRetry]_vars

(***************************************************************************)
(* incremental_scraper.mjs: main                                           *)
(***************************************************************************)
MaxPagesToCheck == 5
MaxNewItems == 50

\* An item as parseListPage builds it from row n of the listing (of its
\* fields the model keeps the three of the key and imdb_id).
IncrRow(n) == [url |-> n, title |-> "T", year |-> "2000", imdb_id |-> ""]
\* An item of the dataset, enriched by an earlier run.
IncrOld(m) == [url |-> 1000 + m, title |-> "T", year |-> "1999", imdb_id |-> "tt1"]

\* A JSON file of items: readable with its items, or not (missing, or cut
\* short).
NoFile == [ok |-> FALSE, items |-> <<>>]
FileOf(items) == [ok |-> TRUE, items |-> items]

\* loadExistingData: the items of the main file, [] when it cannot be read
\* or parsed.
LoadExistingData(file) == IF file.ok THEN file.items ELSE <<>>

\* saveData: fs.writeFile inside try/catch.  The write succeeds, or fails
\* before it touches the file ("failed"), or fails after truncating it
\* ("cut"); the error is logged and saveData returns normally.
WriteOutcomes == {"ok", "failed", "cut"}
SaveData(file, items, how) ==
    IF how = "ok" THEN FileOf(items)
    ELSE IF how = "cut" THEN NoFile
    ELSE file

\* `${item.url}::${item.title}::${item.year}`
CreateItemKey(item) == <<item.url, item.title, item.year>>

\* findNewItems: the page items whose key is not a key of existingItems.
FindNewItems(existingItems, newItems) ==
    LET existingKeys == { CreateItemKey(existingItems[n]) : n \in 1..Len(existingItems) }
    IN  SelectSeq(newItems, LAMBDA item : CreateItemKey(item) \notin existingKeys)

\* The listing of the site, newest rating first: the ratings added while
\* the run goes on, the k ratings added since the dataset was written, and
\* the ratings the dataset has.
SiteList(existingItems, k, s) ==
    [i \in 1..(s + k + Len(existingItems)) |->
        IF i <= s + k THEN IncrRow(s + k - i + 1)
        ELSE [existingItems[i - s - k] EXCEPT !.imdb_id = ""]]

\* parseListPage: the rows of page pg of the listing, [] when the page
\* cannot be loaded or has no rows.
ParseListPage(site, rows, pg, ok) ==
    IF ~ok THEN <<>>
    ELSE SubSeq(site, (pg - 1) * rows + 1,
                IF pg * rows < Len(site) THEN pg * rows ELSE Len(site))

\* const updatedItems = [...allNewItems, ...existingItems]
UpdatedItemsOldFirst(allNewItems, existingItems) == existingItems \o allNewItems
UpdatedItems(allNewItems, existingItems) == allNewItems \o existingItems

ExistingFiles ==
    { NoFile, FileOf(<<>>), FileOf(<<IncrOld(1)>>),
      FileOf(<<IncrOld(1), IncrOld(2)>>), FileOf(<<IncrOld(2), IncrOld(1)>>) }
PageSizes == {1, 30}

InitIncr ==
    /\ rt = RtIdle /\ pc = "none" /\ MainIdle /\ PoolIdle
    /\ \E f \in ExistingFiles, k \in 0..MaxSiteNew, r \in PageSizes :
          att = [stage |-> "start", before |-> f, main |-> f,
                 existing |-> <<>>, k |-> k, rows |-> r, shift |-> 0,
                 p |-> 1, allNew |-> <<>>, newItems |-> NoFile,
                 backup |-> NoFile, backupHow |-> "", mainHow |-> "",
                 state |-> FALSE]

\* Step 1: the dataset is loaded; without items main returns.
IncrLoad ==
    /\ att.stage = "start"
    /\ LET existingItems == LoadExistingData(att.main)
       IN  att' = [att EXCEPT !.existing = existingItems,
                              !.stage = IF Len(existingItems) = 0
                                        THEN "done" ELSE "launch"]
    /\ UNCHANGED <<rt, listing, argv, mainVars, poolVars>>

\* Step 2: browser, context and page; a failure rejects main.
IncrLaunch(ok) ==
    /\ att.stage = "launch"
    /\ att' = [att EXCEPT !.stage = IF ok THEN "pages" ELSE "crashed"]
    /\ UNCHANGED <<rt, listing, argv, mainVars, poolVars>>

\* Step 3, one turn of the loop over the pages; d ratings are added to the
\* listing during the sleep before the next page.
IncrPage(ok, d) ==
    /\ att.stage = "pages"
    /\ LET pageItems == ParseListPage(SiteList(att.existing, att.k, att.shift),
                                      att.rows, att.p, ok)
           newItems == FindNewItems(att.existing, pageItems)
           allNewItems == att.allNew \o newItems
           break == \/ Len(pageItems) = 0
                    \/ (att.p = 1 /\ Len(newItems) = 0)
                    \/ Len(allNewItems) >= MaxNewItems
           last == break \/ att.p = MaxPagesToCheck
       IN  att' = [att EXCEPT
                     !.allNew = allNewItems,
                     !.p = IF last THEN @ ELSE @ + 1,
                     !.shift = IF last THEN @ ELSE @ + d,
                     !.stage = IF ~last THEN "pages"
                               ELSE IF Len(allNewItems) > 0 THEN "enrich"
                               ELSE "state"]
    /\ UNCHANGED <<rt, listing, argv, mainVars, poolVars>>

\* Step 4: enrichNewItems writes the fields of the new items in place.
IncrEnrich(found) ==
    /\ att.stage = "enrich"
    /\ att' = [att EXCEPT
                 !.allNew = [n \in 1..Len(@) |->
                               IF found THEN [@[n] EXCEPT !.imdb_id = "tt2"]
                               ELSE @[n]],
                 !.stage = "saveNew"]
    /\ UNCHANGED <<rt, listing, argv, mainVars, poolVars>>

\* Step 5: saveData(allNewItems, newItemsJson)
IncrSaveNew(how) ==
    /\ att.stage = "saveNew"
    /\ att' = [att EXCEPT !.newItems = SaveData(@, att.allNew, how),
                          !.stage = "backup"]
    /\ UNCHANGED <<rt, listing, argv, mainVars, poolVars>>

\* Step 6: createBackup(existingItems) writes a new backup file through
\* saveData and returns normally whatever the write did.
CreateBackup(how) ==
    /\ att.stage = "backup"
    /\ att' = [att EXCEPT !.backup = SaveData(@, att.existing, how),
                          !.backupHow = how,
                          !.stage = "saveMain"]
    /\ UNCHANGED <<rt, listing, argv, mainVars, poolVars>>

\* Step 6: saveData(updatedItems, mainJson)
IncrSaveMain(how) ==
    /\ att.stage = "saveMain"
    /\ att' = [att EXCEPT
                 !.main = SaveData(@, UpdatedItems(att.allNew, att.existing), how),
                 !.mainHow = how,
                 !.stage = "state"]
    /\ UNCHANGED <<rt, listing, argv, mainVars, poolVars>>

\* Step 7: the state of the run is saved, the browser closed.
IncrSaveState(how) ==
    /\ att.stage = "state"
    /\ att' = [att EXCEPT !.state = (how = "ok"), !.stage = "done"]
    /\ UNCHANGED <<rt, listing, argv, mainVars, poolVars>>

NextIncr ==
    \/ IncrLoad
    \/ \E ok \in BOOLEAN : IncrLaunch(ok)
    \/ \E ok \in BOOLEAN, d \in 0..(MaxShift - att.shift) : IncrPage(ok, d)
    \/ \E found \in BOOLEAN : IncrEnrich(found)
    \/ \E how \in WriteOutcomes : IncrSaveNew(how)
    \/ \E how \in WriteOutcomes : CreateBackup(how)
    \/ \E how \in WriteOutcomes : IncrSaveMain(how)
    \/ \E how \in WriteOutcomes : IncrSaveState(how)

SpecIncr == InitIncr /\ [][NextIncr]_vars

(***************************************************************************)
(* main of scrape_csfd.mjs, steps 4 and 5 statement by statement           *)
(* (lines 1263-1276)                                                       *)
(***************************************************************************)
\* A dataset file: "none", "old" (left by an earlier run), "written" by
\* this run, or "cut" (a write of this run that did not finish).
OldFiles == {"none", "old"}

\* await fs.writeFile(...) outside any try block: an error rejects main.
WriteSwallowed(how) == FALSE
WriteThrows(how) == how # "ok"

\* What a write leaves of the file.
Written(file, how) ==
    IF how = "ok" THEN "written" ELSE IF how = "cut" THEN "cut" ELSE file

\* The enrichment is over (or was skipped); the run-state file is there or
\* not.
InitFinish ==
    /\ rt = RtIdle /\ pc = "none" /\ MainIdle /\ PoolIdle
    /\ \E test \in BOOLEAN, st \in BOOLEAN, c \in OldFiles, j \in OldFiles :
          att = [stage |-> "close", cfg |-> [test |-> test], state |-> st,
                 csv |-> c, json |-> j, unlinked |-> FALSE]

\* await browser.close()
FinClose(ok) ==
    /\ att.stage = "close"
    /\ att' = [att EXCEPT !.stage = IF ok THEN "mkdir" ELSE "crashed"]
    /\ UNCHANGED <<rt, listing, argv, mainVars, poolVars>>

\* await fs.mkdir(config.directories.output, { recursive: true })
FinMkdir(ok) ==
    /\ att.stage = "mkdir"
    /\ att' = [att EXCEPT !.stage = IF ok THEN "csv" ELSE "crashed"]
    /\ UNCHANGED <<rt, listing, argv, mainVars, poolVars>>

\* await fs.writeFile(files.csv, toCsv(all), "utf8")
FinWriteCsv(how) ==
    /\ att.stage = "csv"
    /\ att' = [att EXCEPT !.csv = Written(@, how),
                          !.stage = IF WriteThrows(how) THEN "crashed" ELSE "json"]
    /\ UNCHANGED <<rt, listing, argv, mainVars, poolVars>>

\* await fs.writeFile(files.json, JSON.stringify(all, null, 2), "utf8")
FinWriteJson(how) ==
    /\ att.stage = "json"
    /\ att' = [att EXCEPT !.json = Written(@, how),
                          !.stage = IF WriteThrows(how) THEN "crashed" ELSE "unlink"]
    /\ UNCHANGED <<rt, listing, argv, mainVars, poolVars>>

\* if (!config.flags.test) { try { await fs.unlink(files.state) } catch {} }
FinUnlink(ok) ==
    /\ att.stage = "unlink"
    /\ LET removes == UnlinksState(att.cfg) /\ att.state /\ ok
       IN  att' = [att EXCEPT !.state = IF removes THEN FALSE ELSE @,
                              !.unlinked = removes,
                              !.stage = "finished"]
    /\ UNCHANGED <<rt, listing, argv, mainVars, poolVars>>

\* The process is killed at an await; a write in progress is cut short or
\* has not touched the file yet, an unlink in progress has removed the
\* file or not.
FinKill(how, gone) ==
    /\ att.stage \in {"close", "mkdir", "csv", "json", "unlink"}
    /\ LET removes == /\ att.stage = "unlink" /\ UnlinksState(att.cfg)
                      /\ att.state /\ gone
       IN  att' = [att EXCEPT
                     !.csv = IF att.stage = "csv" THEN Written(@, how) ELSE @,
                     !.json = IF att.stage = "json" THEN Written(@, how) ELSE @,
                     !.state = IF removes THEN FALSE ELSE @,
                     !.unlinked = removes,
                     !.stage = "killed"]
    /\ UNCHANGED <<rt, listing, argv, mainVars, poolVars>>

NextFinish ==
    \/ \E ok \in BOOLEAN : FinClose(ok)
    \/ \E ok \in BOOLEAN : FinMkdir(ok)
    \/ \E how \in WriteOutcomes : FinWriteCsv(how)
    \/ \E how \in WriteOutcomes : FinWriteJson(how)
    \/ \E ok \in BOOLEAN : FinUnlink(ok)
    \/ \E how \in {"failed", "cut"}, gone \in BOOLEAN : FinKill(how, gone)

SpecFinish == InitFinish /\ [][NextFinish]_vars

(***************************************************************************)
(* enrichWithDetails and saveCache, await by await: the writes of the      *)
(* cache file                                                              *)
(***************************************************************************)
\* The cache file as the writes leave it: the number of entries of the
\* snapshot written, and whether it is one complete snapshot.
SnapshotFile(n) == [entries |-> n, complete |-> TRUE]
TornFile == [entries |-> 0, complete |-> FALSE]

\* What fs.writeFile leaves when it has finished: its snapshot, or, when
\* another write of the same file was in progress meanwhile, possibly a
\* mixture of the two.
WriteResults(snapshot, overlapped) ==
    IF overlapped THEN {SnapshotFile(snapshot), TornFile}
    ELSE {SnapshotFile(snapshot)}

\* The workers inside fs.writeFile.
Writers(workers) == { w \in DOMAIN workers : workers[w].pc = "writeFile" }

\* A write starts: it overlaps every write in progress.
Overlap(workers) ==
    [w \in DOMAIN workers |->
        IF workers[w].pc = "writeFile" THEN [workers[w] EXCEPT !.over = TRUE]
        ELSE workers[w]]

\* enrichWithDetails is entered with caching on and an empty cache, on a
\* list of different films; nothing fails.
InitSave ==
    /\ rt = RtIdle /\ pc = "none" /\ MainIdle /\ PoolIdle
    /\ \E test \in BOOLEAN, total \in {1, MaxSaveItems} :
          att = [stage |-> "running", total |-> total, idx |-> 1, done |-> 0,
                 size |-> 0,
                 wk |-> [w \in 1..Concurrency([test |-> test]) |->
                           [pc |-> "claim", snap |-> 0, over |-> FALSE]],
                 final |-> [pc |-> "", snap |-> 0, over |-> FALSE],
                 file |-> SnapshotFile(0)]

\* const i = idx++; if (i >= items.length) break;
SaveClaim(w) ==
    /\ att.stage = "running" /\ att.wk[w].pc = "claim"
    /\ att' = [att EXCEPT !.idx = ClaimNext(@),
                          !.wk[w].pc = IF att.idx > att.total THEN "exit"
                                       ELSE "item"]
    /\ UNCHANGED <<rt, listing, argv, mainVars, poolVars>>

\* The item's page, the attempt with its cache.set, done++, and the test
\* of the periodic save; saveCache begins with await fs.mkdir.
SaveItem(w) ==
    /\ att.stage = "running" /\ att.wk[w].pc = "item"
    /\ att' = [att EXCEPT !.size = @ + 1, !.done = @ + 1,
                          !.wk[w].pc = IF (att.done + 1) % BatchSaveThreshold = 0
                                       THEN "mkdir" ELSE "claim"]
    /\ UNCHANGED <<rt, listing, argv, mainVars, poolVars>>

\* saveCache after mkdir: Object.fromEntries(cache) and the call of
\* fs.writeFile, which is awaited.
SaveWriteStart(w) ==
    /\ att.stage = "running" /\ att.wk[w].pc = "mkdir"
    /\ att' = [att EXCEPT
                 !.wk = [Overlap(@) EXCEPT
                           ![w] = [pc |-> "writeFile", snap |-> att.size,
                                   over |-> Writers(att.wk) # {}]]]
    /\ UNCHANGED <<rt, listing, argv, mainVars, poolVars>>

\* fs.writeFile of a worker's saveCache has finished; the worker sleeps
\* and is back at the claim.
SaveWriteEnd(w) ==
    /\ att.stage = "running" /\ att.wk[w].pc = "writeFile"
    /\ \E f \in WriteResults(att.wk[w].snap, att.wk[w].over) :
          att' = [att EXCEPT !.file = f,
                             !.wk[w] = [pc |-> "claim", snap |-> 0, over |-> FALSE]]
    /\ UNCHANGED <<rt, listing, argv, mainVars, poolVars>>

\* await Promise.all(workers); await saveCache(): the final save starts.
SaveFinalStart ==
    /\ att.stage = "running"
    /\ \A w \in DOMAIN att.wk : att.wk[w].pc = "exit"
    /\ att' = [att EXCEPT !.stage = "final",
                          !.final = [pc |-> "writeFile", snap |-> att.size,
                                     over |-> Writers(att.wk) # {}]]
    /\ UNCHANGED <<rt, listing, argv, mainVars, poolVars>>

\* The final write has finished; enrichWithDetails returns.
SaveFinalEnd ==
    /\ att.stage = "final"
    /\ \E f \in WriteResults(att.final.snap, att.final.over) :
          att' = [att EXCEPT !.file = f, !.stage = "returned",
                             !.final = [pc |-> "", snap |-> 0, over |-> FALSE]]
    /\ UNCHANGED <<rt, listing, argv, mainVars, poolVars>>

NextSave ==
    \/ \E w \in DOMAIN att.wk : SaveClaim(w)
    \/ \E w \in DOMAIN att.wk : SaveItem(w)
    \/ \E w \in DOMAIN att.wk : SaveWriteStart(w)
    \/ \E w \in DOMAIN att.wk : SaveWriteEnd(w)
    \/ SaveFinalStart
    \/ SaveFinalEnd

SpecSave == InitSave /\ [][NextSave]_vars

(***************************************************************************)
(* Properties                                                              *)
(***************************************************************************)
Items == 1..Len(all)

\* C1 (SpecPool): enrichWithDetails never fails, whatever throws inside a
\* worker; the item list keeps its length and its (url, title) keys; an item
\* whose enrichment failed (no page, or every attempt threw) still has empty
\* enrichment fields; once the call has returned every item was processed.
PoolResilience ==
    /\ ppc # "crashed"
    /\ Len(all) = Len(pobs)
    /\ KeysOf(all) = seen
    /\ \A n \in Items : pobs[n].outcome = "failed" => all[n].f = EmptyFields
    /\ ppc = "returned" =>
          \A n \in Items : pobs[n].claims = 1
                           /\ pobs[n].outcome \in {"hit", "ok", "failed"}

\* A pool run has returned with a failed item next to an enriched one.
PoolResilienceWitness ==
    /\ ppc = "returned"
    /\ \E m, n \in Items : /\ pobs[m].outcome = "failed"
                           /\ pobs[n].outcome = "ok"
                           /\ all[n].f # EmptyFields

\* C2 (SpecPool): every index is claimed at most once, no two workers hold
\* the same index, no index below the cursor was skipped, and when the pool
\* has returned every index was claimed exactly once.
ClaimedExactlyOnce ==
    /\ \A n \in Items : pobs[n].claims <= 1
    /\ \A n \in Items : n < idx => pobs[n].claims = 1
    /\ \A v, w \in DOMAIN wk :
          (v # w /\ Working(v) /\ Working(w)) => wk[v].i # wk[w].i
    /\ ppc = "returned" => \A n \in Items : pobs[n].claims = 1

\* Two workers are processing items while a third item has been claimed.
ClaimedExactlyOnceWitness ==
    /\ Len(all) >= 3
    /\ idx > 3
    /\ \E v, w \in DOMAIN wk : v # w /\ Working(v) /\ Working(w)

\* C3 (SpecPool): an item whose key is in the cache when it is claimed gets
\* no page, no navigation and no search; it is served from the cache and
\* carries the cached entry's fields.
CacheHitNoNetwork ==
    \A n \in Items :
        pobs[n].hit =>
            /\ pobs[n].net = {}
            /\ pobs[n].outcome = "hit"
            /\ CacheKey(all[n]) \in DOMAIN cache
            /\ all[n].f = cache[CacheKey(all[n])]

\* An item was served from an entry written by another worker in this run,
\* while the item that produced the entry went through the network.
CacheHitNoNetworkWitness ==
    \E m, n \in Items :
        /\ pobs[n].hit /\ pobs[n].outcome = "hit"
        /\ pobs[m].outcome = "ok" /\ ~pobs[m].hit
        /\ all[m].url = all[n].url
        /\ all[n].f # EmptyFields

PairsDistinct(items) ==
    \A m, n \in 1..Len(items) :
        m # n => <<items[m].url, items[m].title>> # <<items[n].url, items[n].title>>

\* C4 (Spec): no two collected items share the same (url, title) pair, at
\* every point of every run, and in every run-state file written.
DedupInvariant == PairsDistinct(all) /\ PairsDistinct(stateFile.items)

\* A resumed run has added an item and rejected an already seen row.
DedupInvariantWitness ==
    /\ obs.restored > 0
    /\ obs.dup
    /\ Len(all) > obs.restored

LastOf(q) == q[Len(q)]
AllFailed(h) == \A k \in 1..Len(h) : ~h[k].ok

\* C5 as stated (SpecRetry): at most maxAttempts invocations, the first
\* success is returned without another invocation, and after maxAttempts
\* failures the call fails with a RetryExhausted error carrying the last
\* underlying error.
RetryExhaustedContract ==
    /\ Len(rt.hist) <= rt.maxRetries
    /\ \A k \in 1..(Len(rt.hist) - 1) : ~rt.hist[k].ok
    /\ (rt.hist # <<>> /\ LastOf(rt.hist).ok) =>
          (rt.status = "returned" /\ rt.v = LastOf(rt.hist).v)
    /\ (rt.hist # <<>> /\ Len(rt.hist) = rt.maxRetries /\ AllFailed(rt.hist)) =>
          /\ rt.status = "threw"
          /\ rt.v.name = "RetryExhausted"
          /\ rt.v.cause = LastOf(rt.hist).v

\* C5 amended (SpecRetry): for maxAttempts >= 1, at most maxAttempts
\* invocations, the first success is returned without another invocation,
\* and after maxAttempts failures the call rethrows the error of the last
\* invocation itself; for maxAttempts <= 0 nothing is invoked and the call
\* returns undefined.
RetryContract ==
    /\ Len(rt.hist) <= rt.maxRetries
    /\ \A k \in 1..(Len(rt.hist) - 1) : ~rt.hist[k].ok
    /\ (rt.hist # <<>> /\ LastOf(rt.hist).ok) =>
          (rt.status = "returned" /\ rt.v = LastOf(rt.hist).v)
    /\ (rt.hist # <<>> /\ Len(rt.hist) = rt.maxRetries /\ AllFailed(rt.hist)) =>
          (rt.status = "threw" /\ rt.v = LastOf(rt.hist).v)
    /\ rt.status = "threw" =>
          (Len(rt.hist) = rt.maxRetries /\ AllFailed(rt.hist))
    /\ rt.status = "returned" =>
          IF rt.hist = <<>> THEN rt.maxRetries <= 0 /\ rt.v = Undefined
          ELSE LastOf(rt.hist).ok

\* Three attempts failed with different errors and the last one was thrown.
RetryContractWitness ==
    /\ rt.status = "threw"
    /\ Len(rt.hist) = 3
    /\ rt.hist[1].v # rt.hist[3].v
    /\ rt.v = rt.hist[3].v

\* C6 (SpecRetry): the k-th delay slept is baseDelay * 2^(k-1), and a delay
\* is slept after every failed attempt except the one that ends the call.
BackoffDelays ==
    /\ \A k \in 1..Len(rt.delays) : rt.delays[k] = rt.baseDelay * 2^(k - 1)
    /\ Len(rt.delays) =
          Cardinality({k \in 1..Len(rt.hist) : ~rt.hist[k].ok})
          - (IF rt.status = "threw" THEN 1 ELSE 0)

\* 1s, 2s and 4s were slept for a 1s base delay.
BackoffDelaysWitness == rt.delays = <<1000, 2000, 4000>>

\* C7 as stated (Spec): a listing page is attempted a bounded number of
\* times with a fixed delay in between, and once a page has failed on every
\* attempt no later page is requested.
ListFailureStopsWalk ==
    /\ obs.attempts <= ListAttempts
    /\ \A k \in 1..Len(obs.delays) : obs.delays[k] = DelaysRetry(cfg)
    /\ obs.failed # 0 => obs.lastReq <= obs.failed

ListFailureInv ==
    /\ obs.attempts <= ListAttempts
    /\ Len(obs.delays) <= ListAttempts - 1
    /\ \A k \in 1..Len(obs.delays) : obs.delays[k] = DelaysRetry(cfg)
    /\ obs.last = "threw" =>
          /\ obs.attempts = ListAttempts
          /\ obs.failed = obs.lastReq
          /\ \/ pc = "loop" /\ p = obs.lastReq + 1
             \/ pc = "enrich" /\ obs.stop = "exhausted"
                /\ obs.lastReq = MAX_PAGES(cfg)

\* C7 amended (Spec): a listing page whose navigation throws is attempted
\* exactly 2 times with one delay of config.delays.retry in between; when
\* the second attempt throws too the page is skipped - the collected list
\* is unchanged and the walk goes on with the next page number, ending only
\* when that number is past MAX_PAGES; the process stays alive.
ListFailureSkipsPage ==
    /\ []ListFailureInv
    /\ [][(obs'.last = "threw" /\ obs.last # "threw") =>
            (all' = all /\ seen' = seen /\ stateFile' = stateFile
             /\ pc' = "loop" /\ p' = p + 1)]_vars

\* After a page that failed twice, the next page is being retried.
ListFailureSkipsPageWitness ==
    /\ obs.failed # 0
    /\ obs.lastReq = obs.failed + 1
    /\ obs.attempts = 1
    /\ obs.delays = <<DelaysRetry(cfg)>>
    /\ Len(all) > 0

\* C8 (Spec): when parseListPage returns no rows the walk has ended (no
\* page is requested after it) and the step left the collected list as it
\* was.
ZeroRowsStopsWalk ==
    /\ [](obs.last = "empty" =>
            (pc = "enrich" /\ obs.stopPage = obs.lastReq /\ obs.stop = "norows"))
    /\ [][(obs'.last = "empty" /\ obs.last # "empty") =>
            (all' = all /\ seen' = seen)]_vars

\* The walk ended on an empty page after collecting items on earlier pages.
ZeroRowsStopsWalkWitness ==
    /\ obs.last = "empty"
    /\ obs.lastReq > 1
    /\ Len(all) > obs.restored

\* C9 (Spec): when a page yields rows and none of them is new, the walk has
\* ended: no page is requested after it.
NoNewItemsStopsWalk ==
    (obs.last = "rows" /\ obs.added = 0) =>
        (pc = "enrich" /\ obs.stopPage = obs.lastReq /\ obs.stop = "nonew")

\* The walk ended on a page whose rows were all seen before.
NoNewItemsStopsWalkWitness ==
    /\ obs.last = "rows" /\ obs.added = 0 /\ obs.dup
    /\ pc = "enrich"
    /\ Len(all) > 0

\* C10 as stated (Spec): with maxItems set, the collected list of a running
\* process never holds more than maxItems items.
MaxItemsNeverExceeded ==
    (pc # "idle" /\ MAX_ITEMS(cfg) # Null) => Len(all) <= MAX_ITEMS(cfg)

\* C11 (Spec): right after loadState, before the first page is requested:
\* with --resume and a readable run-state file the walk starts at page
\* lastPage + 1 with the saved items; without --resume, or with the file
\* absent or unreadable, it starts at page 1 with an empty list.
ResumeSemantics ==
    (pc = "loop" /\ obs.lastReq = 0) =>
        IF obs.resume /\ stateFile.present /\ stateFile.readable
        THEN p = stateFile.lastPage + 1 /\ all = stateFile.items
        ELSE p = 1 /\ all = <<>>

\* A second run has resumed from a checkpoint that holds items.
ResumeSemanticsWitness ==
    /\ pc = "loop" /\ obs.lastReq = 0
    /\ obs.resume /\ runs = 2
    /\ stateFile.present /\ stateFile.readable
    /\ Len(all) > 0 /\ p = StateSaveInterval + 1

Running == pc \in {"loop", "saveState", "sleep", "enrich", "write"}

UrlTitles(items) == [n \in 1..Len(items) |-> <<items[n].url, items[n].title>>]

\* C12 (SpecResume): for a job on an unchanged listing without failing
\* pages, run with the same flags each time, whatever runs were killed
\* before (during pagination, a checkpoint write or enrichment) and whether
\* restarted with --resume or not: the list at the end of the walk, and the
\* dataset written, have the same (url, title) pairs in the same order as
\* the list of an uninterrupted run.
ResumeEquivalence ==
    /\ pc \in {"enrich", "write"} =>
          UrlTitles(all) = UrlTitles(Walk(listing, argv, 1, <<>>, {}))
    /\ pc = "finished" =>
          UrlTitles(dataset.rows) = UrlTitles(Walk(listing, argv, 1, <<>>, {}))

\* A restarted run has resumed from a checkpoint, collected more items and
\* ended its walk.
ResumeEquivalenceWitness ==
    /\ pc = "enrich" /\ runs >= 2
    /\ obs.restored > 0
    /\ Len(all) > obs.restored

\* C15 (SpecPool): the cache changes only by a step in which an attempt
\* completes, and that step stores the item's fields under the item's key,
\* also when nothing was found (empty fields); a step in which an attempt
\* throws leaves the cache as it is; an item whose key was stored by an
\* earlier run (here: loaded from the cache file) is served from the cache
\* and gets no network work.
CacheWriteLifecycle ==
    /\ [][\A w \in DOMAIN wk :
            (wk[w].pc = "attempt" /\ wk'[w].pc = "close") =>
                /\ CacheKey(all[wk[w].i]) \in DOMAIN cache'
                /\ cache'[CacheKey(all[wk[w].i])] = all'[wk[w].i].f
                /\ \A k \in DOMAIN cache' :
                      k # CacheKey(all[wk[w].i]) => (k \in DOMAIN cache
                                                     /\ cache'[k] = cache[k])]_vars
    /\ [][cache' # cache =>
            \E w \in DOMAIN wk : wk[w].pc = "attempt" /\ wk'[w].pc = "close"]_vars
    /\ [](ppc = "running" =>
            \A n \in Items :
                (pobs[n].claims = 1
                 /\ CacheKey(all[n]) \in DOMAIN LoadCache(poolCfg.cache, cacheFile)) =>
                    (pobs[n].outcome = "hit" /\ pobs[n].net = {}))

\* An attempt that found nothing has stored an empty entry, an item that
\* failed on every attempt has no entry, and an item whose empty entry came
\* from the cache file was served from the cache.
CacheWriteLifecycleWitness ==
    \E k, m, n \in Items :
        /\ pobs[k].outcome = "ok" /\ all[k].f = EmptyFields
        /\ CacheKey(all[k]) \in DOMAIN cache
        /\ cache[CacheKey(all[k])] = EmptyFields
        /\ pobs[m].outcome = "failed" /\ CacheKey(all[m]) \notin DOMAIN cache
        /\ pobs[n].outcome = "hit" /\ all[n].f = EmptyFields

\* Cache entries in memory that are not in the cache file.
Unflushed == Cardinality({ k \in DOMAIN cache : k \notin DOMAIN cacheFile.json })
InFlight == Cardinality({ w \in DOMAIN wk : Working(w) })

\* C16 as stated (SpecFlush): during a pool run with caching on, the number
\* of cache entries written since the last flush never exceeds K plus the
\* number of items in flight, K = config.memory.batchSaveThreshold.
FlushEveryK ==
    (ppc = "running" /\ poolCfg.cache) =>
        Unflushed <= BatchSaveThreshold + InFlight

\* C17 (SpecCache): loadCache always returns normally; when the cache file
\* is missing, unreadable or not valid JSON the in-memory cache is empty
\* after it and the run goes on.
LoadCacheBestEffort ==
    /\ [](pc # "crashed")
    /\ [][(pc = "start" /\ pc' # "start") =>
            /\ pc' = "cached"
            /\ (~cacheFile.present \/ ~cacheFile.valid) => cache' = EmptyMap]_vars

\* A process with caching on has loaded an unparseable cache file and has
\* gone on to write an entry.
LoadCacheBestEffortWitness ==
    /\ pc = "cached" /\ poolCfg.cache /\ runs = 1
    /\ cacheFile.present /\ ~cacheFile.valid
    /\ cache # EmptyMap

\* C18 (SpecCache): the entry written last under a key is what the map
\* holds and what a lookup of that key copies onto the item, in the writing
\* process and, once saveCache has written the file, in a later process that
\* loads it; a lookup of a key that is not in the cache leaves the item
\* untouched and does not fail.
CacheRoundTrip ==
    /\ pc # "crashed"
    /\ (pc = "cached" /\ pobs.inMem) =>
          /\ pobs.k \in DOMAIN cache
          /\ cache[pobs.k] = pobs.e
          /\ \A n \in 1..Len(all) :
                CacheKey(all[n]) = pobs.k => all[n].f = pobs.e
    /\ pc = "cached" =>
          \A n \in 1..Len(all) :
              CacheKey(all[n]) \notin DOMAIN cache => all[n].f = EmptyFields

\* A later process has loaded an entry written and saved by an earlier one
\* and a lookup has returned it.
CacheRoundTripWitness ==
    /\ pc = "cached" /\ runs = 2
    /\ pobs.inMem /\ pobs.onDisk
    /\ pobs.e # EmptyFields
    /\ all # <<>> /\ CacheKey(all[1]) = pobs.k /\ all[1].f = pobs.e

\* The four tactics as the cascade is described: known-button selector,
\* generic anchor href, structured-data blocks, raw-text scan.
Tactics(page) ==
    << HrefId(SelectSeq(page, SelButton)),
       FirstNonEmpty(<< HrefId(SelectSeq(page, SelTitleHref)), HrefId(SelectSeq(page, SelImdbHref)) >>),
       IF JsonScripts(page) = <<>> THEN "" ELSE JsonScripts(page)[1].data[1],
       RawRegex(page) >>

\* C19 (SpecExtract): when extractImdbOnPage has returned without an
\* exception and two of the four tactics succeed on the page with different
\* values, the identifier returned is that of the earlier of the two unless
\* a still earlier tactic succeeds, i.e. it is the value of the first tactic
\* that succeeds.
CascadeOrder ==
    (att.stage = "extracted" /\ att.ok) =>
        \A i \in 1..4, j \in 1..4 :
            LET t == Tactics(att.page)
            IN  (i < j /\ t[i] # "" /\ t[j] # "" /\ t[i] # t[j]
                 /\ \A k \in 1..(i - 1) : t[k] = "")
                => att.imdb_id = t[i]

\* The navigations of the attempt to the parent page of its item.
ParentVisits ==
    { n \in 1..Len(att.visits) :
        /\ ParentTitleUrl(att.it.url) # <<>>
        /\ att.visits[n] = ParentTitleUrl(att.it.url) }

\* C20 (SpecAttempt): in one attempt the pages navigated to are the item's
\* page and, at most once, its parent page; the parent is visited only for
\* an episode, season or series whose identifier or original title was
\* still empty after the extraction on the item's own page, never for a
\* film; the parent has no parent of its own to go to; what was found
\* before the parent page (identifier, original title) is what the attempt
\* ends with.
ParentFallback ==
    att.stage # "none" =>
        /\ Cardinality(ParentVisits) <= 1
        /\ \A n \in 1..Len(att.visits) :
              att.visits[n] = att.it.url \/ n \in ParentVisits
        /\ ParentVisits # {} =>
              /\ att.it.type \in {"episode", "season", "series"}
              /\ att.own.imdb = "" \/ att.own.orig = <<>>
        /\ att.it.type = "film" => ParentVisits = {}
        /\ ParentTitleUrl(ParentTitleUrl(att.it.url)) = <<>>
        /\ att.stage \in {"search2", "done"} =>
              /\ att.pre.imdb # "" => att.cur.imdb = att.pre.imdb
              /\ att.pre.orig # <<>> => att.cur.orig = att.pre.orig
        /\ att.stage = "done" =>
              /\ att.pre.imdb # "" => att.it.f.imdb_id = att.pre.imdb
              /\ att.pre.orig # <<>> => att.it.f.original_title = StripMore(att.pre.orig)

\* An episode whose own page gave the identifier but no title has been to
\* its parent page, which offered another identifier and a title: the
\* attempt ends with its own identifier and the parent's title.
ParentFallbackWitness ==
    /\ att.stage = "done"
    /\ ParentVisits # {}
    /\ att.pre.imdb = "tt1" /\ att.pre.orig = <<>>
    /\ att.d.parent.imdb_id = "tt2"
    /\ att.it.f.imdb_id = "tt1" /\ att.it.f.original_title = <<"P">>

\* The positions of the attempt's log at which the search was invoked.
SearchCalls == { n \in 1..Len(att.log) : att.log[n] = "search" }

\* C21 as stated (SpecAttempt): a finished attempt has invoked the search
\* exactly when the extraction on the item's own page left the identifier
\* empty.
SearchIffIdEmpty ==
    att.stage = "done" => (SearchCalls # {} <=> att.own.imdb = "")

\* C21 (SpecAttempt): the search needs a title.  A finished attempt has
\* invoked the search on the item's page exactly when the extraction there
\* gave an original title and no identifier, and a second time exactly when
\* the item is an episode, season or series that has a title and still no
\* identifier after the parent-page step; every search precedes the write of
\* the result; no search is invoked when the extraction on the item's page
\* found an identifier.
SearchWhenTitleKnown ==
    /\ att.stage \in {"parent", "search2", "thrown"} =>
          (SearchCalls # {} <=> (att.own.imdb = "" /\ att.own.orig # <<>>))
    /\ att.stage = "done" =>
          /\ att.log[Len(att.log)] = "write"
          /\ Cardinality(SearchCalls) =
                (IF att.own.imdb = "" /\ att.own.orig # <<>> THEN 1 ELSE 0)
                + (IF /\ att.it.type \in {"episode", "season", "series"}
                      /\ att.par.imdb = "" /\ att.par.orig # <<>> THEN 1 ELSE 0)
          /\ att.own.imdb # "" => SearchCalls = {}

\* A film whose page gave a title and no identifier got its identifier from
\* the search.
SearchWhenTitleKnownWitness ==
    /\ att.stage = "done" /\ att.it.type = "film"
    /\ att.own.imdb = "" /\ att.own.orig # <<>>
    /\ Cardinality(SearchCalls) = 1
    /\ att.it.f.imdb_id = "tt1"

\* The positions of the attempt's log at which the parent page was tried.
ParentTries == { n \in 1..Len(att.log) : att.log[n] = "parent" }

\* C29 as stated (SpecAttempt): when the parent page is tried in an attempt,
\* no search has been invoked before it.
SearchNeverBeforeParent ==
    att.stage # "none" => \A n \in SearchCalls, m \in ParentTries : m < n

\* C29 (SpecAttempt): the steps of an attempt run in the order own page,
\* extraction, quick retry, search by title, parent page, second search,
\* write: a search made with the title of the item's own page precedes the
\* parent page, and after the parent page at most one search follows.
StageOrder ==
    att.stage # "none" =>
        LET rank(e) == CASE e = "goto" -> 1 [] e = "extract" -> 2
                         [] e = "settle" -> 3 [] e = "search" -> 4
                         [] e = "parent" -> 5 [] e = "write" -> 7
            at(n) == IF att.log[n] = "search"
                        /\ \E m \in ParentTries \cup SearchCalls : m < n
                     THEN 6 ELSE rank(att.log[n])
        IN  /\ \A m, n \in 1..Len(att.log) : m < n => at(m) < at(n)
            /\ \A m \in ParentTries :
                  (att.own.imdb = "" /\ att.own.orig # <<>>)
                      <=> (\E n \in SearchCalls : n < m)
            /\ att.stage \in {"search", "parent", "search2", "done"} =>
                  /\ att.log[1] = "goto" /\ att.log[2] = "extract"

\* An episode whose page gave a title and no identifier was searched for
\* without success, then its parent page was tried, then the search was
\* made again.
StageOrderWitness ==
    /\ att.stage = "done" /\ att.it.type = "episode"
    /\ att.log = <<"goto", "extract", "search", "parent", "search", "write">>

\* The score of a candidate as the scheme is described: 100 for the year,
\* plus 200, 150, 100 or 20 per shared word for the title.
DescribedScore(c) ==
    LET q == LowerTitle(att.title)
        t == LowerTitle(c.title)
    IN  (IF att.year = "" \/ c.year = "" \/ c.year = att.year THEN 100 ELSE 0)
        + (CASE q = t -> 200
             [] q # t /\ Includes(t, q) -> 150
             [] q # t /\ ~Includes(t, q) /\ Includes(q, t) -> 100
             [] OTHER -> 20 * Cardinality({ n \in 1..Len(q) :
                                            \E m \in 1..Len(t) : t[m] = q[n] }))

\* The positions of the result list that compete: among the first ten,
\* with a tt identifier.
Competing ==
    { n \in 1..Len(att.results) :
        n <= 10 /\ att.results[n].id \in {"tt1", "tt2", "tt3"} }

DescriptionWithinBudget ==
    att.stage = "described" =>
        /\ Len(att.out) <= 250
        /\ (att.out # <<>> /\ Len(att.out) < Len(att.text)
            /\ \E n \in 251..Len(att.text) : att.text[n] \in {"a", "."}) =>
              /\ att.out[Len(att.out)] = "."
              /\ att.out = SubSeq(att.text, 1, Len(att.out))

\* The item pages that are open.
OpenPages == { n \in 1..Len(pobs) : pobs[n].open > 0 }

\* C28 (SpecPool): every item page that is open belongs to an item a worker
\* is working on, so a worker that is back at the claim has no page open
\* and the open pages are never more than the workers.
PagesClosedBeforeNextClaim ==
    ppc \in {"running", "returned"} =>
        /\ \A n \in OpenPages : \E w \in DOMAIN wk : Working(w) /\ wk[w].i = n
        /\ Cardinality(OpenPages) <= Len(wk)

\* What the listing gave of each item, in list order.
Listed(items) ==
    [n \in 1..Len(items) |->
        <<items[n].url, items[n].title, items[n].year, items[n].type,
          items[n].rating, items[n].ratingDate>>]

\* C30 (SpecPool): no step of the pool changes the length of the item list
\* or the (url, title, year, type, rating, ratingDate) of an item, so after
\* the pool the list is in listing order as before it, whatever the order
\* in which the workers complete.
PoolKeepsListing ==
    [][Listed(all') = Listed(all)]_vars

\* The pool has returned after two workers enriched two items, the second
\* item from the cache and the first from the network.
PoolKeepsListingWitness ==
    /\ ppc = "returned" /\ Len(all) >= 2
    /\ pobs[1].outcome = "ok" /\ pobs[2].outcome = "hit"
    /\ all[1].f # EmptyFields

\* C26 (SpecClean): cleaning a cleaned title changes nothing.
CleanTitleIdempotent ==
    att.stage = "cleaned" => att.twice = att.once

\* C24 (SpecSearch): in scrape_csfd.mjs and incremental_scraper.mjs a
\* search whose cleaned title has fewer than two characters opens no page,
\* issues no query and returns the empty result.
ShortTitleNoQuery ==
    (/\ att.stage # "none"
     /\ att.file \in {"scrape_csfd", "incremental_scraper"}
     /\ StrLen(CleanTitle(att.file, att.title)) < 2) =>
        att.opened = 0 /\ ~att.queried /\ att.out = ""

\* C25 (SpecSearch): searchImdbByTitle never throws to its caller, and a
\* call in which opening the page, the navigation, the parsing of the page
\* or the closing failed returns the empty result.
SearchNeverThrows ==
    /\ att.stage # "thrown"
    /\ (/\ att.stage = "returned"
        /\ \/ ~att.w.newPageOk \/ ~att.w.gotoOk
           \/ (att.w.json # "found" /\ att.w.selector = "")) => att.out = ""

\* The similarity of two titles in the words of the claim: equal, one
\* contains the other, or they share a word (letter case apart).
Similar(a, b) ==
    LET la == [n \in 1..Len(a) |-> IF a[n] = "X" THEN "x" ELSE a[n]]
        lb == [n \in 1..Len(b) |-> IF b[n] = "X" THEN "x" ELSE b[n]]
    IN  \/ la = lb
        \/ \E i \in 0..(Len(la) - Len(lb)) : SubSeq(la, i + 1, i + Len(lb)) = lb
        \/ \E i \in 0..(Len(lb) - Len(la)) : SubSeq(lb, i + 1, i + Len(la)) = la
        \/ \E n \in 1..Len(la), m \in 1..Len(lb) : la[n] = lb[m]

\* C38 (SpecScore): a candidate the scored search returns has a title
\* similar to the query; the year alone does not get a candidate returned.
SimilarTitleReturned ==
    (att.stage = "returned" /\ att.out.imdb_id # "") =>
        \E n \in 1..Len(att.results) :
            /\ att.results[n].id = att.out.imdb_id
            /\ Similar(att.title, att.results[n].title)

\* C37 (SpecScore): on every result page the search of scrape_csfd.mjs
\* returns the candidate the scored search of incremental_scraper.mjs
\* returns.
MainSelectsAsIncremental ==
    (att.stage = "returned" /\ att.file = "incremental_scraper") =>
        att.main = att.out

\* C31 (SpecIncr): the list of new items of an incremental run never has
\* more than maxNewItems entries.
NewItemsWithinLimit ==
    att.stage # "none" => Len(att.allNew) <= MaxNewItems

\* The keys (url, title, year) of a list of items are pairwise different.
KeysDistinct(items) ==
    \A m, n \in 1..Len(items) :
        (m # n) => <<items[m].url, items[m].title, items[m].year>>
                   # <<items[n].url, items[n].title, items[n].year>>

\* C33 (SpecIncr): a dataset without two items of the same key has none
\* after the incremental run either.
NoDuplicateKeys ==
    (att.stage # "none" /\ att.before.ok /\ KeysDistinct(att.before.items)) =>
        (att.main.ok => KeysDistinct(att.main.items))

\* C32 (SpecIncr): when the write of the backup did not succeed, the main
\* dataset file keeps the contents it had before the run.
BackupBeforeOverwrite ==
    (att.stage # "none" /\ att.backupHow \in {"failed", "cut"}) =>
        att.main = att.before

\* C34 (SpecIncr): the dataset an incremental run has written is the new
\* items followed by the items the dataset had before, each of these
\* unmodified and in its place relative to the others.
ExistingItemsKept ==
    (att.stage # "none" /\ att.mainHow = "ok") =>
        LET old == att.before.items
            new == att.main.items
            added == Len(new) - Len(old)
        IN  /\ added = Len(att.allNew)
            /\ \A n \in 1..Len(att.allNew) : new[n] = att.allNew[n]
            /\ \A n \in 1..Len(old) : new[added + n] = old[n]

\* A run has written the dataset with new items in front of two old ones.
ExistingItemsKeptWitness ==
    /\ att.stage = "done" /\ att.mainHow = "ok"
    /\ Len(att.before.items) = 2 /\ Len(att.allNew) >= 2
    /\ att.main.items[1].imdb_id = "tt2"
    /\ att.main.items[Len(att.main.items)] = att.before.items[2]

\* C36 (SpecSave): at most one write of the cache file is in progress at
\* any time, the final write starts when every worker has finished, and
\* between writes the file is one complete snapshot of the map.
OneFlushAtATime ==
    att.stage # "none" =>
        LET writing == { w \in DOMAIN att.wk : att.wk[w].pc = "writeFile" }
        IN  /\ Cardinality(writing) + (IF att.stage = "final" THEN 1 ELSE 0) <= 1
            /\ att.stage = "final" => \A w \in DOMAIN att.wk : att.wk[w].pc = "exit"
            /\ att.file.complete

\* C35 (SpecFinish): at every point of a run, the run has not deleted the
\* run-state file or both dataset files were written completely by it.
StateDeletedAfterDataset ==
    (att.stage # "none" /\ (att.unlinked \/ att.stage \in {"unlink", "finished"})) =>
        att.csv = "written" /\ att.json = "written"

\* A run outside test mode has deleted the run-state file it found.
StateDeletedAfterDatasetWitness ==
    /\ att.stage = "finished" /\ att.unlinked /\ ~att.state
    /\ ~att.cfg.test
    /\ att.csv = "written" /\ att.json = "written"

====
